---- MODULE Spec2Model ----
(***************************************************************************)
(* Verification model of market-maker-rs: the InventoryPosition ledger,    *)
(* the PnL aggregator, the Avellaneda-Stoikov quoting functions, the       *)
(* StrategyConfig constructor and the VolatilityEstimator.                 *)
(*                                                                         *)
(* Decimal values (rust_decimal::Decimal) are modelled as fixed-point      *)
(* integers counting units of 10^-Scale.  Addition and subtraction are     *)
(* exact; multiplication and division round the result to Scale            *)
(* fractional digits (half to even), as the library does when a result     *)
(* needs more fractional digits than it can hold.  The library keeps 28    *)
(* fractional digits, the model keeps Scale.                               *)
(***************************************************************************)
EXTENDS Integers, Sequences, FiniteSets, TLC

VARIABLES position, pnl, call, rt, quote, config, estimate, tasks, fills, market_state,
          session, data_source, metrics, steps

vars == <<position, pnl, call, rt, quote, config, estimate, tasks, fills, market_state,
          session, data_source, metrics, steps>>

(***************************************************************************)
(* Decimal arithmetic                                                      *)
(***************************************************************************)
Scale == 4

Unit == 10 ^ Scale

D(n) == n * Unit

ZERO == 0

ONE == D(1)

Abs(x) == IF x < 0 THEN -x ELSE x

Sign(x) == IF x < 0 THEN -1 ELSE IF x > 0 THEN 1 ELSE 0

Min(a, b) == IF a <= b THEN a ELSE b

\* n >= 0, d > 0: n / d rounded to the nearest integer, ties to even
RoundDiv(n, d) ==
    LET q == n \div d
        r == n % d
    IN  IF 2 * r > d \/ (2 * r = d /\ q % 2 = 1) THEN q + 1 ELSE q

\* a * b, rounded to Scale fractional digits
DecMul(a, b) ==
    LET x  == Abs(a)
        y  == Abs(b)
        xh == x \div Unit
        xl == x % Unit
        yh == y \div Unit
        yl == y % Unit
        m  == xh * yh * Unit + xh * yl + xl * yh + RoundDiv(xl * yl, Unit)
    IN  Sign(a) * Sign(b) * m

RECURSIVE FracDigits(_, _, _, _)
\* long division of the remainder r < y: k further decimal digits appended to acc
FracDigits(r, y, k, acc) ==
    IF k = 0
    THEN IF 2 * r > y \/ (2 * r = y /\ acc % 2 = 1) THEN acc + 1 ELSE acc
    ELSE FracDigits((r * 10) % y, y, k - 1, acc * 10 + ((r * 10) \div y))

\* a / b for b # 0, rounded to Scale fractional digits
DecDiv(a, b) ==
    LET x == Abs(a)
        y == Abs(b)
    IN  Sign(a) * Sign(b) * FracDigits(x % y, y, Scale, x \div y)

(***************************************************************************)
(* DecimalMath: ln and integer power through f64                           *)
(***************************************************************************)
Ok(v) == [ok |-> TRUE, val |-> v]

Err(kind, msg) == [ok |-> FALSE, err |-> kind, msg |-> msg]

\* largest magnitude Decimal::from_f64 can represent (Decimal::MAX in the library)
DecimalMax == D(50000)

\* Decimal::from_f64: None when the float is not finite or out of the Decimal range
from_f64_ok(x) == Abs(x) <= DecimalMax

\* x, y within the Decimal range: does the f64 product leave it
MulOverflows(x, y) ==
    (Abs(x) \div Unit) * (Abs(y) \div Unit) > DecimalMax \div Unit
    \/ ~from_f64_ok(DecMul(x, y))

RECURSIVE PowNat(_, _)
\* v^n for n >= 0 as the float computes it; "inf" once it leaves the Decimal range
PowNat(v, n) ==
    IF n = 0 THEN [fin |-> TRUE, val |-> ONE]
    ELSE LET p == PowNat(v, n - 1)
         IN  IF ~p.fin \/ MulOverflows(p.val, v)
             THEN [fin |-> FALSE, val |-> ZERO]
             ELSE [fin |-> TRUE, val |-> DecMul(p.val, v)]

decimal_powi(value, exponent) ==
    LET p == PowNat(value, Abs(exponent))
    IN  IF exponent >= 0
        THEN IF p.fin THEN Ok(p.val)
             ELSE Err("NumericalError", "decimal_powi: conversion error")
        ELSE IF ~p.fin THEN Ok(ZERO)
             ELSE IF p.val = ZERO
             THEN Err("NumericalError", "decimal_powi: conversion error")
             ELSE Ok(DecDiv(ONE, p.val))

\* ln 2 to six fractional digits
LN2_MICRO == 693147

\* n * ln 2, rounded to Scale fractional digits
NLn2(n) == Sign(n) * RoundDiv(Abs(n) * LN2_MICRO, 1000000 \div Unit)

RECURSIVE Log2Floor(_)
\* for x >= Unit: the largest n with 2^n * Unit <= x
Log2Floor(x) == IF x < 2 * Unit THEN 0 ELSE 1 + Log2Floor(x \div 2)

RECURSIVE Log2Ceil(_)
\* for 0 < x < Unit: the least n with 2^n * x >= Unit
Log2Ceil(x) == IF x >= Unit THEN 0 ELSE 1 + Log2Ceil(2 * x)

\* f64::ln of a positive value, to Scale fractional digits:
\* x = 2^n * m with 1 <= m < 2, ln x = n ln 2 + 2 atanh((m - 1) / (m + 1))
LnPositive(x) ==
    LET n  == IF x >= Unit THEN Log2Floor(x) ELSE 0 - Log2Ceil(x)
        m  == IF n >= 0 THEN RoundDiv(x, 2 ^ n) ELSE x * 2 ^ (0 - n)
        z  == DecDiv(m - Unit, m + Unit)
        z2 == DecMul(z, z)
        z3 == DecMul(z2, z)
        z5 == DecMul(z3, z2)
        z7 == DecMul(z5, z2)
        series == z + RoundDiv(z3, 3) + RoundDiv(z5, 5) + RoundDiv(z7, 7)
    IN  NLn2(n) + 2 * series

decimal_ln(value) ==
    IF value <= ZERO
    THEN Err("NumericalError", "decimal_ln: conversion error")
    ELSE Ok(LnPositive(value))

RECURSIVE ISqrt(_)
\* the largest s with s * s <= n
ISqrt(n) ==
    IF n < 2 THEN n
    ELSE LET s == 2 * ISqrt(n \div 4)
         IN  IF (s + 1) * (s + 1) <= n THEN s + 1 ELSE s

\* the next decimal digit of a square root whose digits so far are r
SqrtDigit(r, rem) ==
    CHOOSE d \in 0 .. 9 :
        /\ (20 * r + d) * d <= rem
        /\ \A e \in (d + 1) .. 9 : (20 * r + e) * e > rem

RECURSIVE SqrtDigits(_, _, _)
\* k more decimal digits of the square root, the last one rounded to nearest
SqrtDigits(r, rem, k) ==
    IF k = 0 THEN IF rem > r THEN r + 1 ELSE r
    ELSE LET d == SqrtDigit(r, 100 * rem)
         IN  SqrtDigits(10 * r + d, 100 * rem - (20 * r + d) * d, k - 1)

\* f64::sqrt to Scale fractional digits; the square root of a negative value
\* is NaN, which has no Decimal
decimal_sqrt(value) ==
    IF value < ZERO
    THEN Err("NumericalError", "decimal_sqrt: conversion error")
    ELSE Ok(SqrtDigits(ISqrt(value), value - ISqrt(value) * ISqrt(value), Scale \div 2))

(***************************************************************************)
(* Avellaneda-Stoikov quoting functions                                    *)
(***************************************************************************)
SECONDS_PER_YEAR == 31536000

\* 1 / SECONDS_PER_MILLISECOND
MILLISECONDS_PER_SECOND == 1000

\* (time_to_terminal_ms * SECONDS_PER_MILLISECOND) / SECONDS_PER_YEAR: the
\* product is exact, the quotient is rounded to Scale fractional digits
time_to_terminal_years(time_to_terminal_ms) ==
    RoundDiv(time_to_terminal_ms,
             (SECONDS_PER_YEAR \div 1000) * ((1000 * MILLISECONDS_PER_SECOND) \div Unit))

\* calculate_reservation_price whose adjustment leaves the inventory out
calculate_reservation_price_no_inventory(mid_price, inventory, risk_aversion, volatility, time_to_terminal_ms) ==
    IF mid_price <= ZERO
    THEN Err("InvalidMarketState", "mid_price must be positive")
    ELSE IF volatility <= ZERO
    THEN Err("InvalidMarketState", "volatility must be positive")
    ELSE IF risk_aversion <= ZERO
    THEN Err("InvalidConfiguration", "risk_aversion must be positive")
    ELSE LET years == time_to_terminal_years(time_to_terminal_ms)
             volatility_squared == decimal_powi(volatility, 2)
         IN  IF ~volatility_squared.ok THEN volatility_squared
             ELSE Ok(mid_price
                     - DecMul(DecMul(risk_aversion, volatility_squared.val), years))

\* calculate_reservation_price whose adjustment is added to the mid price
calculate_reservation_price_added(mid_price, inventory, risk_aversion, volatility, time_to_terminal_ms) ==
    IF mid_price <= ZERO
    THEN Err("InvalidMarketState", "mid_price must be positive")
    ELSE IF volatility <= ZERO
    THEN Err("InvalidMarketState", "volatility must be positive")
    ELSE IF risk_aversion <= ZERO
    THEN Err("InvalidConfiguration", "risk_aversion must be positive")
    ELSE LET years == time_to_terminal_years(time_to_terminal_ms)
             volatility_squared == decimal_powi(volatility, 2)
         IN  IF ~volatility_squared.ok THEN volatility_squared
             ELSE LET adjustment ==
                          DecMul(DecMul(DecMul(inventory, risk_aversion),
                                        volatility_squared.val), years)
                  IN  Ok(mid_price + adjustment)

\* calculate_reservation_price that validates the risk aversion first
calculate_reservation_price_risk_aversion_first(mid_price, inventory, risk_aversion, volatility, time_to_terminal_ms) ==
    IF risk_aversion <= ZERO
    THEN Err("InvalidConfiguration", "risk_aversion must be positive")
    ELSE IF mid_price <= ZERO
    THEN Err("InvalidMarketState", "mid_price must be positive")
    ELSE IF volatility <= ZERO
    THEN Err("InvalidMarketState", "volatility must be positive")
    ELSE LET years == time_to_terminal_years(time_to_terminal_ms)
             volatility_squared == decimal_powi(volatility, 2)
         IN  IF ~volatility_squared.ok THEN volatility_squared
             ELSE LET adjustment ==
                          DecMul(DecMul(DecMul(inventory, risk_aversion),
                                        volatility_squared.val), years)
                  IN  Ok(mid_price - adjustment)

calculate_reservation_price(mid_price, inventory, risk_aversion, volatility, time_to_terminal_ms) ==
    IF mid_price <= ZERO
    THEN Err("InvalidMarketState", "mid_price must be positive")
    ELSE IF volatility <= ZERO
    THEN Err("InvalidMarketState", "volatility must be positive")
    ELSE IF risk_aversion <= ZERO
    THEN Err("InvalidConfiguration", "risk_aversion must be positive")
    ELSE LET years == time_to_terminal_years(time_to_terminal_ms)
             volatility_squared == decimal_powi(volatility, 2)
         IN  IF ~volatility_squared.ok THEN volatility_squared
             ELSE LET adjustment ==
                          DecMul(DecMul(DecMul(inventory, risk_aversion),
                                        volatility_squared.val), years)
                  IN  Ok(mid_price - adjustment)

\* calculate_optimal_spread without the inventory risk term
calculate_optimal_spread_no_inventory_risk(risk_aversion, volatility, time_to_terminal_ms, order_intensity) ==
    IF risk_aversion <= ZERO
    THEN Err("InvalidConfiguration", "risk_aversion must be positive")
    ELSE IF volatility <= ZERO
    THEN Err("InvalidConfiguration", "volatility must be positive")
    ELSE IF order_intensity <= ZERO
    THEN Err("InvalidConfiguration", "order_intensity must be positive")
    ELSE LET volatility_squared == decimal_powi(volatility, 2)
         IN  IF ~volatility_squared.ok THEN volatility_squared
             ELSE LET adverse_selection_inner ==
                          ONE + DecDiv(risk_aversion, order_intensity)
                      adverse_selection_ln == decimal_ln(adverse_selection_inner)
                  IN  IF ~adverse_selection_ln.ok THEN adverse_selection_ln
                      ELSE Ok(DecMul(DecDiv(D(2), risk_aversion),
                                     adverse_selection_ln.val))

\* calculate_optimal_spread that reports a non-positive volatility as
\* InvalidMarketState, as calculate_reservation_price does
calculate_optimal_spread_market_state(risk_aversion, volatility, time_to_terminal_ms, order_intensity) ==
    IF risk_aversion <= ZERO
    THEN Err("InvalidConfiguration", "risk_aversion must be positive")
    ELSE IF volatility <= ZERO
    THEN Err("InvalidMarketState", "volatility must be positive")
    ELSE IF order_intensity <= ZERO
    THEN Err("InvalidConfiguration", "order_intensity must be positive")
    ELSE LET years == time_to_terminal_years(time_to_terminal_ms)
             volatility_squared == decimal_powi(volatility, 2)
         IN  IF ~volatility_squared.ok THEN volatility_squared
             ELSE LET inventory_risk_term ==
                          DecMul(DecMul(risk_aversion, volatility_squared.val), years)
                      adverse_selection_inner ==
                          ONE + DecDiv(risk_aversion, order_intensity)
                      adverse_selection_ln == decimal_ln(adverse_selection_inner)
                  IN  IF ~adverse_selection_ln.ok THEN adverse_selection_ln
                      ELSE LET adverse_selection_term ==
                                   DecMul(DecDiv(D(2), risk_aversion),
                                          adverse_selection_ln.val)
                               spread == inventory_risk_term + adverse_selection_term
                           IN  IF spread < ZERO
                               THEN Err("NumericalError",
                                        "spread calculation resulted in negative value")
                               ELSE Ok(spread)

calculate_optimal_spread(risk_aversion, volatility, time_to_terminal_ms, order_intensity) ==
    IF risk_aversion <= ZERO
    THEN Err("InvalidConfiguration", "risk_aversion must be positive")
    ELSE IF volatility <= ZERO
    THEN Err("InvalidConfiguration", "volatility must be positive")
    ELSE IF order_intensity <= ZERO
    THEN Err("InvalidConfiguration", "order_intensity must be positive")
    ELSE LET years == time_to_terminal_years(time_to_terminal_ms)
             volatility_squared == decimal_powi(volatility, 2)
         IN  IF ~volatility_squared.ok THEN volatility_squared
             ELSE LET inventory_risk_term ==
                          DecMul(DecMul(risk_aversion, volatility_squared.val), years)
                      adverse_selection_inner ==
                          ONE + DecDiv(risk_aversion, order_intensity)
                      adverse_selection_ln == decimal_ln(adverse_selection_inner)
                  IN  IF ~adverse_selection_ln.ok THEN adverse_selection_ln
                      ELSE LET adverse_selection_term ==
                                   DecMul(DecDiv(D(2), risk_aversion),
                                          adverse_selection_ln.val)
                               spread == inventory_risk_term + adverse_selection_term
                           IN  IF spread < ZERO
                               THEN Err("NumericalError",
                                        "spread calculation resulted in negative value")
                               ELSE Ok(spread)

\* calculate_optimal_quotes without the check that the bid is positive
calculate_optimal_quotes_no_positive_check(mid_price, inventory, risk_aversion, volatility, time_to_terminal_ms, order_intensity) ==
    LET reservation_price ==
            calculate_reservation_price(mid_price, inventory, risk_aversion,
                                        volatility, time_to_terminal_ms)
        spread ==
            calculate_optimal_spread(risk_aversion, volatility, time_to_terminal_ms,
                                     order_intensity)
    IN  IF ~reservation_price.ok THEN reservation_price
        ELSE IF ~spread.ok THEN spread
        ELSE LET half_spread == DecDiv(spread.val, D(2))
                 bid_price == reservation_price.val - half_spread
                 ask_price == reservation_price.val + half_spread
             IN  IF bid_price >= ask_price
                 THEN Err("InvalidQuoteGeneration", "bid price must be less than ask price")
                 ELSE Ok(<<bid_price, ask_price>>)

\* calculate_optimal_quotes without the check that the bid is below the ask
calculate_optimal_quotes_no_order_check(mid_price, inventory, risk_aversion, volatility, time_to_terminal_ms, order_intensity) ==
    LET reservation_price ==
            calculate_reservation_price(mid_price, inventory, risk_aversion,
                                        volatility, time_to_terminal_ms)
        spread ==
            calculate_optimal_spread(risk_aversion, volatility, time_to_terminal_ms,
                                     order_intensity)
    IN  IF ~reservation_price.ok THEN reservation_price
        ELSE IF ~spread.ok THEN spread
        ELSE LET half_spread == DecDiv(spread.val, D(2))
                 bid_price == reservation_price.val - half_spread
                 ask_price == reservation_price.val + half_spread
             IN  IF bid_price <= ZERO
                 THEN Err("InvalidQuoteGeneration", "bid price must be positive")
                 ELSE Ok(<<bid_price, ask_price>>)

\* calculate_optimal_quotes that centres the quotes on the mid price
calculate_optimal_quotes_mid_centred(mid_price, inventory, risk_aversion, volatility, time_to_terminal_ms, order_intensity) ==
    LET reservation_price ==
            calculate_reservation_price(mid_price, inventory, risk_aversion,
                                        volatility, time_to_terminal_ms)
        spread ==
            calculate_optimal_spread(risk_aversion, volatility, time_to_terminal_ms,
                                     order_intensity)
    IN  IF ~reservation_price.ok THEN reservation_price
        ELSE IF ~spread.ok THEN spread
        ELSE LET half_spread == DecDiv(spread.val, D(2))
                 bid_price == mid_price - half_spread
                 ask_price == mid_price + half_spread
             IN  IF bid_price >= ask_price
                 THEN Err("InvalidQuoteGeneration", "bid price must be less than ask price")
                 ELSE IF bid_price <= ZERO
                 THEN Err("InvalidQuoteGeneration", "bid price must be positive")
                 ELSE Ok(<<bid_price, ask_price>>)

\* calculate_optimal_quotes that computes the spread before the reservation price
calculate_optimal_quotes_spread_first(mid_price, inventory, risk_aversion, volatility, time_to_terminal_ms, order_intensity) ==
    LET reservation_price ==
            calculate_reservation_price(mid_price, inventory, risk_aversion,
                                        volatility, time_to_terminal_ms)
        spread ==
            calculate_optimal_spread(risk_aversion, volatility, time_to_terminal_ms,
                                     order_intensity)
    IN  IF ~spread.ok THEN spread
        ELSE IF ~reservation_price.ok THEN reservation_price
        ELSE LET half_spread == DecDiv(spread.val, D(2))
                 bid_price == reservation_price.val - half_spread
                 ask_price == reservation_price.val + half_spread
             IN  IF bid_price >= ask_price
                 THEN Err("InvalidQuoteGeneration", "bid price must be less than ask price")
                 ELSE IF bid_price <= ZERO
                 THEN Err("InvalidQuoteGeneration", "bid price must be positive")
                 ELSE Ok(<<bid_price, ask_price>>)

calculate_optimal_quotes(mid_price, inventory, risk_aversion, volatility, time_to_terminal_ms, order_intensity) ==
    LET reservation_price ==
            calculate_reservation_price(mid_price, inventory, risk_aversion,
                                        volatility, time_to_terminal_ms)
        spread ==
            calculate_optimal_spread(risk_aversion, volatility, time_to_terminal_ms,
                                     order_intensity)
    IN  IF ~reservation_price.ok THEN reservation_price
        ELSE IF ~spread.ok THEN spread
        ELSE LET half_spread == DecDiv(spread.val, D(2))
                 bid_price == reservation_price.val - half_spread
                 ask_price == reservation_price.val + half_spread
             IN  IF bid_price >= ask_price
                 THEN Err("InvalidQuoteGeneration", "bid price must be less than ask price")
                 ELSE IF bid_price <= ZERO
                 THEN Err("InvalidQuoteGeneration", "bid price must be positive")
                 ELSE Ok(<<bid_price, ask_price>>)

(***************************************************************************)
(* InventoryPosition                                                       *)
(***************************************************************************)
InventoryPosition_new == [quantity |-> ZERO, avg_entry_price |-> ZERO, last_update |-> 0]

is_flat(p) == p.quantity = ZERO

is_long(p) == p.quantity > ZERO

is_short(p) == p.quantity < ZERO

\* update_fill without the final reset of the average of a flat position
update_fill_no_flat_reset(p, fill_quantity, fill_price, timestamp) ==
    LET new_quantity == p.quantity + fill_quantity
        avg1 == IF (p.quantity > ZERO /\ new_quantity < ZERO)
                   \/ (p.quantity < ZERO /\ new_quantity > ZERO)
                THEN fill_price
                ELSE IF Abs(new_quantity) > Abs(p.quantity)
                THEN DecDiv(DecMul(p.quantity, p.avg_entry_price)
                            + DecMul(fill_quantity, fill_price), new_quantity)
                ELSE p.avg_entry_price
    IN  [quantity |-> new_quantity, avg_entry_price |-> avg1, last_update |-> timestamp]

\* update_fill without the sign-crossing case
update_fill_no_crossing(p, fill_quantity, fill_price, timestamp) ==
    LET new_quantity == p.quantity + fill_quantity
        avg1 == IF Abs(new_quantity) > Abs(p.quantity)
                THEN DecDiv(DecMul(p.quantity, p.avg_entry_price)
                            + DecMul(fill_quantity, fill_price), new_quantity)
                ELSE p.avg_entry_price
    IN  [quantity        |-> new_quantity,
         avg_entry_price |-> IF new_quantity = ZERO THEN ZERO ELSE avg1,
         last_update     |-> timestamp]

\* update_fill taking the fill price, not the weighted average, when increasing
update_fill_last_price(p, fill_quantity, fill_price, timestamp) ==
    LET new_quantity == p.quantity + fill_quantity
        avg1 == IF (p.quantity > ZERO /\ new_quantity < ZERO)
                   \/ (p.quantity < ZERO /\ new_quantity > ZERO)
                THEN fill_price
                ELSE IF Abs(new_quantity) > Abs(p.quantity)
                THEN fill_price
                ELSE p.avg_entry_price
    IN  [quantity        |-> new_quantity,
         avg_entry_price |-> IF new_quantity = ZERO THEN ZERO ELSE avg1,
         last_update     |-> timestamp]

\* update_fill taking the weighted average on reducing fills too
update_fill_average_on_reduce(p, fill_quantity, fill_price, timestamp) ==
    LET new_quantity == p.quantity + fill_quantity
        avg1 == IF (p.quantity > ZERO /\ new_quantity < ZERO)
                   \/ (p.quantity < ZERO /\ new_quantity > ZERO)
                THEN fill_price
                ELSE IF new_quantity # ZERO
                THEN DecDiv(DecMul(p.quantity, p.avg_entry_price)
                            + DecMul(fill_quantity, fill_price), new_quantity)
                ELSE p.avg_entry_price
    IN  [quantity        |-> new_quantity,
         avg_entry_price |-> IF new_quantity = ZERO THEN ZERO ELSE avg1,
         last_update     |-> timestamp]

\* update_fill that never moves last_update backwards
update_fill_monotone_timestamp(p, fill_quantity, fill_price, timestamp) ==
    LET new_quantity == p.quantity + fill_quantity
        avg1 == IF (p.quantity > ZERO /\ new_quantity < ZERO)
                   \/ (p.quantity < ZERO /\ new_quantity > ZERO)
                THEN fill_price
                ELSE IF Abs(new_quantity) > Abs(p.quantity)
                THEN DecDiv(DecMul(p.quantity, p.avg_entry_price)
                            + DecMul(fill_quantity, fill_price), new_quantity)
                ELSE p.avg_entry_price
    IN  [quantity        |-> new_quantity,
         avg_entry_price |-> IF new_quantity = ZERO THEN ZERO ELSE avg1,
         last_update     |-> IF timestamp > p.last_update THEN timestamp
                             ELSE p.last_update]

update_fill(p, fill_quantity, fill_price, timestamp) ==
    LET new_quantity == p.quantity + fill_quantity
        avg1 == IF (p.quantity > ZERO /\ new_quantity < ZERO)
                   \/ (p.quantity < ZERO /\ new_quantity > ZERO)
                THEN fill_price
                ELSE IF Abs(new_quantity) > Abs(p.quantity)
                THEN LET total_cost == DecMul(p.quantity, p.avg_entry_price)
                                       + DecMul(fill_quantity, fill_price)
                     IN  DecDiv(total_cost, new_quantity)
                ELSE p.avg_entry_price
    IN  [quantity        |-> new_quantity,
         avg_entry_price |-> IF new_quantity = ZERO THEN ZERO ELSE avg1,
         last_update     |-> timestamp]

\* unrealized_pnl with the price difference taken the wrong way round
unrealized_pnl_swapped(p, current_price) ==
    IF is_flat(p) THEN ZERO ELSE DecMul(p.quantity, p.avg_entry_price - current_price)

unrealized_pnl(p, current_price) ==
    IF is_flat(p) THEN ZERO ELSE DecMul(p.quantity, current_price - p.avg_entry_price)

(***************************************************************************)
(* PnL                                                                     *)
(***************************************************************************)
PnL_new == [realized |-> ZERO, unrealized |-> ZERO, total |-> ZERO]

update(l, realized, unrealized) ==
    [realized |-> realized, unrealized |-> unrealized, total |-> realized + unrealized]

\* add_realized that does not recompute total
add_realized_stale_total(l, amount) ==
    [realized |-> l.realized + amount, unrealized |-> l.unrealized, total |-> l.total]

\* add_realized that subtracts the amount
add_realized_negated(l, amount) ==
    [realized   |-> l.realized - amount,
     unrealized |-> l.unrealized,
     total      |-> (l.realized - amount) + l.unrealized]

add_realized(l, amount) ==
    [realized   |-> l.realized + amount,
     unrealized |-> l.unrealized,
     total      |-> (l.realized + amount) + l.unrealized]

\* set_unrealized that accumulates the amount
set_unrealized_accumulated(l, amount) ==
    [realized   |-> l.realized,
     unrealized |-> l.unrealized + amount,
     total      |-> l.realized + (l.unrealized + amount)]

set_unrealized(l, amount) ==
    [realized |-> l.realized, unrealized |-> amount, total |-> l.realized + amount]

(***************************************************************************)
(* Bounds of the explored inputs                                           *)
(***************************************************************************)
MaxQty == 20

MaxTs == 1

MaxSteps == 3

MaxAmount == 2

FillQuantities == {D(-15), D(-10), D(-5), ZERO, D(5), D(10), D(15)}

FillPrices == {ZERO, D(95), D(100), D(102), D(105)}

MarkPrices == {D(95), D(100), D(105)}

Timestamps == 0 .. MaxTs

Amounts == {D(-25), D(50), D(100)} \cup {D(a) : a \in (0 - MaxAmount) .. MaxAmount}

NoCall == [op |-> "none"]

NoRt == [stage |-> "idle"]

NoQuote == [fn |-> "none"]

NoConfig == [op |-> "none"]

NoEstimate == [op |-> "none"]

NoTasks == <<>>

NoFills == [quantity |-> ZERO, cost |-> ZERO, count |-> 0, last_timestamp |-> 0]

NoMarketState == [mid_price |-> ZERO, timestamp |-> 0]

NoSession == [program |-> "none", step |-> 0]

NoDataSource == [ticks |-> <<>>, index |-> 0]

NoMetrics == [op |-> "none"]

(***************************************************************************)
(* Position ledger: one InventoryPosition, mutated only by update_fill     *)
(***************************************************************************)
Init ==
    /\ position = InventoryPosition_new
    /\ pnl = PnL_new
    /\ call = NoCall
    /\ rt = NoRt
    /\ quote = NoQuote
    /\ config = NoConfig
    /\ estimate = NoEstimate
    /\ tasks = NoTasks
    /\ fills = NoFills
    /\ market_state = NoMarketState
    /\ session = NoSession
    /\ data_source = NoDataSource
    /\ metrics = NoMetrics
    /\ steps = 0

\* the fills applied so far: their number, the sum of their quantities, the
\* sum of quantity * price, and the timestamp of the latest
Applied(f, fill_quantity, fill_price, timestamp) ==
    [quantity       |-> f.quantity + fill_quantity,
     cost           |-> f.cost + DecMul(fill_quantity, fill_price),
     count          |-> f.count + 1,
     last_timestamp |-> timestamp]

UpdateFill(fq, fp, ts) ==
    /\ steps < MaxSteps
    /\ Abs(position.quantity + fq) <= D(MaxQty)
    /\ steps' = steps + 1
    /\ position' = update_fill(position, fq, fp, ts)
    /\ call' = [op |-> "update_fill", fill_quantity |-> fq, fill_price |-> fp,
                timestamp |-> ts, pre |-> position]
    /\ fills' = Applied(fills, fq, fp, ts)
    /\ UNCHANGED <<pnl, rt, quote, config, estimate, tasks, market_state, session, data_source, metrics>>

UnrealizedPnl(cp) ==
    /\ call' = [op |-> "unrealized_pnl", current_price |-> cp, pre |-> position,
                ret |-> unrealized_pnl(position, cp)]
    /\ UNCHANGED <<position, pnl, rt, quote, steps, config, estimate, tasks, fills, market_state, session, data_source, metrics>>

Next ==
    \/ \E fq \in FillQuantities, fp \in FillPrices, ts \in Timestamps : UpdateFill(fq, fp, ts)
    \/ \E cp \in MarkPrices : UnrealizedPnl(cp)

Spec == Init /\ [][Next]_vars

(***************************************************************************)
(* PnL ledger: one PnL, mutated by update, add_realized, set_unrealized    *)
(***************************************************************************)
Update(r, u) ==
    /\ steps < MaxSteps
    /\ steps' = steps + 1
    /\ pnl' = update(pnl, r, u)
    /\ call' = [op |-> "update", realized |-> r, unrealized |-> u, pre |-> pnl]
    /\ UNCHANGED <<position, rt, quote, config, estimate, tasks, fills, market_state, session, data_source, metrics>>

AddRealized(d) ==
    /\ steps < MaxSteps
    /\ steps' = steps + 1
    /\ pnl' = add_realized(pnl, d)
    /\ call' = [op |-> "add_realized", amount |-> d, pre |-> pnl]
    /\ UNCHANGED <<position, rt, quote, config, estimate, tasks, fills, market_state, session, data_source, metrics>>

SetUnrealized(v) ==
    /\ steps < MaxSteps
    /\ steps' = steps + 1
    /\ pnl' = set_unrealized(pnl, v)
    /\ call' = [op |-> "set_unrealized", amount |-> v, pre |-> pnl]
    /\ UNCHANGED <<position, rt, quote, config, estimate, tasks, fills, market_state, session, data_source, metrics>>

NextPnL ==
    \/ \E r \in Amounts, u \in Amounts : Update(r, u)
    \/ \E d \in Amounts : AddRealized(d)
    \/ \E v \in Amounts : SetUnrealized(v)

SpecPnL == Init /\ [][NextPnL]_vars

(***************************************************************************)
(* Queries on a position whose public fields hold any values, as a struct  *)
(* literal builds it                                                       *)
(***************************************************************************)
PositionValues ==
    [quantity : FillQuantities, avg_entry_price : FillPrices, last_update : Timestamps]

InitQuery ==
    /\ position \in PositionValues
    /\ pnl = PnL_new
    /\ call = NoCall
    /\ rt = NoRt
    /\ quote = NoQuote
    /\ config = NoConfig
    /\ estimate = NoEstimate
    /\ tasks = NoTasks
    /\ fills = NoFills
    /\ market_state = NoMarketState
    /\ session = NoSession
    /\ data_source = NoDataSource
    /\ metrics = NoMetrics
    /\ steps = 0

NextQuery == \E cp \in MarkPrices : UnrealizedPnl(cp)

SpecQuery == InitQuery /\ [][NextQuery]_vars

(***************************************************************************)
(* Round trip of a session: open n at p1, book the realized PnL of the     *)
(* closing fill from the average read before it, close n at p2             *)
(***************************************************************************)
MaxLots == 4

RtQuantities == {D(n) : n \in 1 .. MaxLots} \cup {D(10), D(1) \div 2, D(5) \div 2}

RtPrices == {D(95), D(100), D(102), D(105), D(1) \div 2, D(401) \div 4}

RtOpen(n, p1, ts) ==
    /\ rt.stage = "idle"
    /\ position' = update_fill(position, n, p1, ts)
    /\ rt' = [stage |-> "open", n |-> n, p1 |-> p1]
    /\ UNCHANGED <<pnl, call, quote, steps, config, estimate, tasks, fills, market_state, session, data_source, metrics>>

RtRealize(p2) ==
    /\ rt.stage = "open"
    /\ pnl' = add_realized(pnl, DecMul(rt.n, p2 - position.avg_entry_price))
    /\ rt' = [stage |-> "realized", n |-> rt.n, p1 |-> rt.p1, p2 |-> p2]
    /\ UNCHANGED <<position, call, quote, steps, config, estimate, tasks, fills, market_state, session, data_source, metrics>>

RtClose(ts) ==
    /\ rt.stage = "realized"
    /\ position' = update_fill(position, 0 - rt.n, rt.p2, ts)
    /\ rt' = [stage |-> "closed", n |-> rt.n, p1 |-> rt.p1, p2 |-> rt.p2]
    /\ UNCHANGED <<pnl, call, quote, steps, config, estimate, tasks, fills, market_state, session, data_source, metrics>>

NextRoundTrip ==
    \/ \E n \in RtQuantities, p1 \in RtPrices, ts \in Timestamps : RtOpen(n, p1, ts)
    \/ \E p2 \in RtPrices : RtRealize(p2)
    \/ \E ts \in Timestamps : RtClose(ts)

SpecRoundTrip == Init /\ [][NextRoundTrip]_vars

(***************************************************************************)
(* Properties of the position ledger (Spec)                                *)
(***************************************************************************)
IsFill == call.op = "update_fill"

PreQ == call.pre.quantity

NewQ == call.pre.quantity + call.fill_quantity

Crossing == (PreQ > ZERO /\ NewQ < ZERO) \/ (PreQ < ZERO /\ NewQ > ZERO)

Increasing == ~Crossing /\ Abs(NewQ) > Abs(PreQ)

Reducing == ~Crossing /\ Abs(NewQ) <= Abs(PreQ)

\* C1 as stated: after every sequence of update_fill calls the position is
\* flat if and only if its average entry price is zero.
C1_FlatIffZeroAvg ==
    (position.quantity = ZERO) <=> (position.avg_entry_price = ZERO)

\* C1 amended: after every sequence of update_fill calls a flat position has
\* average entry price zero (the converse fails after a fill at price 0).
C1_FlatImpliesZeroAvg ==
    (position.quantity = ZERO) => (position.avg_entry_price = ZERO)

C1_Witness ==
    /\ IsFill
    /\ PreQ # ZERO
    /\ call.pre.avg_entry_price # ZERO
    /\ position.quantity = ZERO
    /\ position.avg_entry_price = ZERO

\* C4: a fill that takes the quantity across zero (long to short or short to
\* long) sets the average to exactly the fill price and the quantity to
\* q + fill_quantity; long 10, fill -15 at 105 gives quantity -5, average 105.
C4_CrossingResetsAverage ==
    /\ (IsFill /\ Crossing) =>
          /\ position.avg_entry_price = call.fill_price
          /\ position.quantity = NewQ
    /\ (IsFill /\ PreQ = D(10) /\ call.fill_quantity = D(-15) /\ call.fill_price = D(105)) =>
          /\ position.quantity = D(-5)
          /\ position.avg_entry_price = D(105)

C4_Witness ==
    /\ IsFill
    /\ PreQ = D(10)
    /\ call.pre.avg_entry_price = D(100)
    /\ call.fill_quantity = D(-15)
    /\ call.fill_price = D(105)
    /\ position.quantity = D(-5)
    /\ position.avg_entry_price = D(105)

C6_ReducingKeepsAverage ==
    (IsFill /\ Reducing) =>
        /\ position.quantity = NewQ
        /\ (NewQ # ZERO => position.avg_entry_price = call.pre.avg_entry_price)
        /\ (NewQ = ZERO => position.avg_entry_price = ZERO)

C6_Witness ==
    /\ IsFill
    /\ PreQ = D(10)
    /\ call.pre.avg_entry_price = D(100)
    /\ call.fill_quantity = D(-5)
    /\ call.fill_price = D(105)
    /\ position.quantity = D(5)
    /\ position.avg_entry_price = D(100)

\* C7: unrealized_pnl(p) returns 0 for a flat position, whatever average it
\* stores, and quantity * (p - avg_entry_price) otherwise, and leaves the
\* position as it was; long 10@100 gives 50 at 105 and -50 at 95, short
\* 10@100 gives 50 at 95.
C7_UnrealizedPnl ==
    call.op = "unrealized_pnl" =>
        /\ position = call.pre
        /\ (position.quantity = ZERO => call.ret = ZERO)
        /\ (position.quantity # ZERO =>
               call.ret = DecMul(position.quantity,
                                 call.current_price - position.avg_entry_price))
        /\ (position.quantity = D(10) /\ position.avg_entry_price = D(100) =>
               /\ call.current_price = D(105) => call.ret = D(50)
               /\ call.current_price = D(95) => call.ret = D(-50))
        /\ (position.quantity = D(-10) /\ position.avg_entry_price = D(100)
               /\ call.current_price = D(95) => call.ret = D(50))

C7_Witness ==
    /\ call.op = "unrealized_pnl"
    /\ position.quantity = D(-10)
    /\ position.avg_entry_price = D(100)
    /\ call.current_price = D(95)
    /\ call.ret = D(50)

(***************************************************************************)
(* Properties of the PnL ledger (SpecPnL)                                  *)
(***************************************************************************)
\* C2: after every sequence of update, add_realized and set_unrealized calls
\* total equals realized + unrealized.
C2_TotalIsSum ==
    pnl.total = pnl.realized + pnl.unrealized

C2_Witness ==
    /\ call.op = "add_realized"
    /\ call.pre.unrealized # ZERO
    /\ call.amount # ZERO
    /\ pnl.realized # ZERO
    /\ pnl.total = pnl.realized + pnl.unrealized

MidPrices == {D(-1), ZERO, D(1) \div 2, D(100)}

\* D(1) / 10000 and D(2) / 10000 are inventories whose product with a risk
\* aversion and a time below 1 is rounded at the last fractional digit
Inventories ==
    {D(-1000), D(-10), ZERO, D(1) \div 10000, D(2) \div 10000, D(10), D(1000)}

RiskAversions == {D(-1), ZERO, D(1) \div 2, D(1)}

\* D(300) squared is beyond DecimalMax; the squares of D(1) / 100 and D(2) / 100
\* times a risk aversion and a time below 1 are rounded at the last digit
Volatilities ==
    {D(-1), ZERO, D(1) \div 100, D(2) \div 100, D(1), D(2), D(300)}

TerminalTimes == {0, 36000000, 1576800000}

\* D(1) / 2 divided by D(20000) rounds to zero
OrderIntensities == {D(-1), ZERO, D(1) \div 10, D(3) \div 2, D(20000)}

QuoteInputs ==
    [fn : {"none"}, mid_price : MidPrices, inventory : Inventories,
     risk_aversion : RiskAversions, volatility : Volatilities,
     time_to_terminal_ms : TerminalTimes, order_intensity : OrderIntensities]

InitQuotes ==
    /\ position = InventoryPosition_new
    /\ pnl = PnL_new
    /\ call = NoCall
    /\ rt = NoRt
    /\ quote \in QuoteInputs
    /\ config = NoConfig
    /\ estimate = NoEstimate
    /\ tasks = NoTasks
    /\ fills = NoFills
    /\ market_state = NoMarketState
    /\ session = NoSession
    /\ data_source = NoDataSource
    /\ metrics = NoMetrics
    /\ steps = 0

Returned(fn, result) ==
    [fn |-> fn, mid_price |-> quote.mid_price, inventory |-> quote.inventory,
     risk_aversion |-> quote.risk_aversion, volatility |-> quote.volatility,
     time_to_terminal_ms |-> quote.time_to_terminal_ms,
     order_intensity |-> quote.order_intensity, result |-> result]

ReservationPrice ==
    /\ quote.fn = "none"
    /\ quote' = Returned("reservation_price",
                         calculate_reservation_price(quote.mid_price, quote.inventory,
                             quote.risk_aversion, quote.volatility,
                             quote.time_to_terminal_ms))
    /\ UNCHANGED <<position, pnl, call, rt, steps, config, estimate, tasks, fills, market_state, session, data_source, metrics>>

OptimalSpread ==
    /\ quote.fn = "none"
    /\ quote' = Returned("optimal_spread",
                         calculate_optimal_spread(quote.risk_aversion, quote.volatility,
                             quote.time_to_terminal_ms, quote.order_intensity))
    /\ UNCHANGED <<position, pnl, call, rt, steps, config, estimate, tasks, fills, market_state, session, data_source, metrics>>

OptimalQuotes ==
    /\ quote.fn = "none"
    /\ quote' = Returned("optimal_quotes",
                         calculate_optimal_quotes(quote.mid_price, quote.inventory,
                             quote.risk_aversion, quote.volatility,
                             quote.time_to_terminal_ms, quote.order_intensity))
    /\ UNCHANGED <<position, pnl, call, rt, steps, config, estimate, tasks, fills, market_state, session, data_source, metrics>>

NextQuotes ==
    \/ ReservationPrice
    \/ OptimalSpread
    \/ OptimalQuotes

SpecQuotes == InitQuotes /\ [][NextQuotes]_vars

(***************************************************************************)
(* Properties of the quoting functions (SpecQuotes)                        *)
(***************************************************************************)
IsQuotes == quote.fn = "optimal_quotes"

IsReservation == quote.fn = "reservation_price"

Bid == quote.result.val[1]

Ask == quote.result.val[2]

\* C3: every successful result (bid, ask) of calculate_optimal_quotes has
\* bid < ask and bid > 0.
C3_OkQuotesOrdered ==
    (IsQuotes /\ quote.result.ok) => (Bid < Ask /\ Bid > ZERO)

C3_Witness ==
    /\ IsQuotes
    /\ quote.result.ok
    /\ quote.inventory = D(1000)
    /\ quote.time_to_terminal_ms > 0
    /\ Bid > ZERO
    /\ Bid < Ask
    /\ Ask < quote.mid_price

\* the reservation price and spread computed from the arguments of the last call
QuoteR ==
    calculate_reservation_price(quote.mid_price, quote.inventory, quote.risk_aversion,
                                quote.volatility, quote.time_to_terminal_ms)

QuoteS ==
    calculate_optimal_spread(quote.risk_aversion, quote.volatility,
                             quote.time_to_terminal_ms, quote.order_intensity)

QuoteBid == QuoteR.val - DecDiv(QuoteS.val, D(2))

QuoteAsk == QuoteR.val + DecDiv(QuoteS.val, D(2))

IsInvalidQuoteGeneration ==
    ~quote.result.ok /\ quote.result.err = "InvalidQuoteGeneration"

\* C9: calculate_optimal_quotes fails with InvalidQuoteGeneration exactly when
\* the reservation price and the spread are both computed and bid = r - spread/2,
\* ask = r + spread/2 have bid >= ask or bid <= 0; the call (0.5, -1000, 1, 1,
\* 36000000, 0.1) fails with InvalidQuoteGeneration because bid <= 0.
C9_InvalidQuoteGeneration ==
    IsQuotes =>
        /\ IsInvalidQuoteGeneration <=>
              (QuoteR.ok /\ QuoteS.ok /\ (QuoteBid >= QuoteAsk \/ QuoteBid <= ZERO))
        /\ (/\ quote.mid_price = D(1) \div 2
            /\ quote.inventory = D(-1000)
            /\ quote.risk_aversion = D(1)
            /\ quote.volatility = D(1)
            /\ quote.time_to_terminal_ms = 36000000
            /\ quote.order_intensity = D(1) \div 10)
           => (IsInvalidQuoteGeneration /\ QuoteBid <= ZERO /\ QuoteBid < QuoteAsk)

C9_Witness ==
    /\ IsQuotes
    /\ quote.mid_price = D(1) \div 2
    /\ quote.inventory = D(-1000)
    /\ quote.risk_aversion = D(1)
    /\ quote.volatility = D(1)
    /\ quote.time_to_terminal_ms = 36000000
    /\ quote.order_intensity = D(1) \div 10
    /\ IsInvalidQuoteGeneration
    /\ quote.result.msg = "bid price must be positive"

ValidReservationArgs ==
    /\ quote.mid_price > ZERO
    /\ quote.risk_aversion > ZERO
    /\ quote.volatility > ZERO

\* C10 as stated: with inventory 0, calculate_reservation_price returns exactly
\* mid for every mid > 0, risk_aversion > 0, volatility > 0 and every time.
C10_FlatReservationIsMid ==
    (IsReservation /\ ValidReservationArgs /\ quote.inventory = ZERO) =>
        quote.result = Ok(quote.mid_price)

\* C10 amended: with inventory 0 and positive mid, risk_aversion and volatility,
\* calculate_reservation_price returns exactly mid when the square of the
\* volatility is representable as a Decimal, and NumericalError otherwise.
C10_FlatReservationIsMidOrNumericalError ==
    (IsReservation /\ ValidReservationArgs /\ quote.inventory = ZERO) =>
        IF from_f64_ok(quote.volatility) /\ ~MulOverflows(quote.volatility, quote.volatility)
        THEN quote.result = Ok(quote.mid_price)
        ELSE ~quote.result.ok /\ quote.result.err = "NumericalError"

C10_Witness ==
    /\ IsReservation
    /\ quote.inventory = ZERO
    /\ quote.mid_price = D(100)
    /\ quote.volatility = D(2)
    /\ quote.time_to_terminal_ms > 0
    /\ quote.result = Ok(D(100))

\* the product a * b is representable with Scale fractional digits
ExactMul(a, b) == ((Abs(a) % Unit) * (Abs(b) % Unit)) % Unit = 0

\* no product of inventory * risk_aversion * volatility^2 * years is rounded
ExactAdjustment(inventory) ==
    LET years == time_to_terminal_years(quote.time_to_terminal_ms)
        g == DecMul(inventory, quote.risk_aversion)
        v2 == DecMul(quote.volatility, quote.volatility)
    IN  /\ ExactMul(quote.volatility, quote.volatility)
        /\ ExactMul(inventory, quote.risk_aversion)
        /\ ExactMul(g, v2)
        /\ ExactMul(DecMul(g, v2), years)

\* the reservation price of the last call's arguments with another inventory
ReservationAt(inventory) ==
    calculate_reservation_price(quote.mid_price, inventory, quote.risk_aversion,
                                quote.volatility, quote.time_to_terminal_ms)

VolatilitySquaredRepresentable ==
    from_f64_ok(quote.volatility) /\ ~MulOverflows(quote.volatility, quote.volatility)

IsSpread == quote.fn = "optimal_spread"

ValidSpreadArgs ==
    /\ quote.risk_aversion > ZERO
    /\ quote.volatility > ZERO
    /\ quote.order_intensity > ZERO

\* the spread of the last call's arguments with another volatility
SpreadAt(volatility) ==
    calculate_optimal_spread(quote.risk_aversion, volatility,
                             quote.time_to_terminal_ms, quote.order_intensity)

Representable(volatility) ==
    from_f64_ok(volatility) /\ ~MulOverflows(volatility, volatility)

\* no product of risk_aversion * volatility^2 * years is rounded
ExactInventoryRisk(volatility) ==
    LET years == time_to_terminal_years(quote.time_to_terminal_ms)
        v2 == DecMul(volatility, volatility)
    IN  /\ ExactMul(volatility, volatility)
        /\ ExactMul(quote.risk_aversion, v2)
        /\ ExactMul(DecMul(quote.risk_aversion, v2), years)

ResultIsErr(kind, msg) ==
    ~quote.result.ok /\ quote.result.err = kind /\ quote.result.msg = msg

\* C13: calculate_reservation_price fails with InvalidMarketState when
\* mid_price <= 0 or volatility <= 0, and with InvalidConfiguration when
\* risk_aversion <= 0 while mid_price and volatility are positive; the checks
\* are applied in the order mid_price, volatility, risk_aversion, and validation
\* rejects no value of inventory or time_to_terminal_ms.
C13_ReservationValidation ==
    IsReservation =>
        /\ quote.mid_price <= ZERO
             => ResultIsErr("InvalidMarketState", "mid_price must be positive")
        /\ (quote.mid_price > ZERO /\ quote.volatility <= ZERO)
             => ResultIsErr("InvalidMarketState", "volatility must be positive")
        /\ (quote.mid_price > ZERO /\ quote.volatility > ZERO
                /\ quote.risk_aversion <= ZERO)
             => ResultIsErr("InvalidConfiguration", "risk_aversion must be positive")
        /\ ValidReservationArgs
             => (quote.result.ok \/ quote.result.err = "NumericalError")

\* all three arguments are invalid: the mid price is the one reported
C13_Witness ==
    /\ IsReservation
    /\ quote.mid_price = D(-1)
    /\ quote.volatility = ZERO
    /\ quote.risk_aversion = D(-1)
    /\ ResultIsErr("InvalidMarketState", "mid_price must be positive")

\* C14: calculate_optimal_spread fails with InvalidConfiguration whenever
\* risk_aversion <= 0, volatility <= 0 or order_intensity <= 0 (zero included);
\* a non-positive volatility is InvalidConfiguration, not InvalidMarketState.
C14_SpreadValidation ==
    IsSpread =>
        /\ ~ValidSpreadArgs => (~quote.result.ok /\ quote.result.err = "InvalidConfiguration")
        /\ (quote.risk_aversion > ZERO /\ quote.volatility <= ZERO)
             => ResultIsErr("InvalidConfiguration", "volatility must be positive")
        /\ ValidSpreadArgs
             => (quote.result.ok \/ quote.result.err = "NumericalError")

C14_Witness ==
    /\ IsSpread
    /\ quote.risk_aversion = D(1)
    /\ quote.volatility = ZERO
    /\ quote.order_intensity = D(3) \div 2
    /\ ResultIsErr("InvalidConfiguration", "volatility must be positive")

(***************************************************************************)
(* StrategyConfig: the validating constructor                              *)
(***************************************************************************)
\* StrategyConfig::new that rejects a zero min_spread
StrategyConfig_new_positive_min_spread(risk_aversion, order_intensity, terminal_time, min_spread) ==
    IF risk_aversion <= ZERO
    THEN Err("InvalidConfiguration", "risk_aversion must be positive")
    ELSE IF order_intensity <= ZERO
    THEN Err("InvalidConfiguration", "order_intensity must be positive")
    ELSE IF min_spread <= ZERO
    THEN Err("InvalidConfiguration", "min_spread must be non-negative")
    ELSE Ok([risk_aversion |-> risk_aversion, order_intensity |-> order_intensity,
             terminal_time |-> terminal_time, min_spread |-> min_spread])

StrategyConfig_new(risk_aversion, order_intensity, terminal_time, min_spread) ==
    IF risk_aversion <= ZERO
    THEN Err("InvalidConfiguration", "risk_aversion must be positive")
    ELSE IF order_intensity <= ZERO
    THEN Err("InvalidConfiguration", "order_intensity must be positive")
    ELSE IF min_spread < ZERO
    THEN Err("InvalidConfiguration", "min_spread must be non-negative")
    ELSE Ok([risk_aversion |-> risk_aversion, order_intensity |-> order_intensity,
             terminal_time |-> terminal_time, min_spread |-> min_spread])

TerminalTimestamps == {0, 1000, 1576800000}

MinSpreads == {D(-1) \div 100, ZERO, D(1) \div 100, D(5)}

New(risk_aversion, order_intensity, terminal_time, min_spread) ==
    /\ config' = [op |-> "new", risk_aversion |-> risk_aversion,
                  order_intensity |-> order_intensity,
                  terminal_time |-> terminal_time, min_spread |-> min_spread,
                  result |-> StrategyConfig_new(risk_aversion, order_intensity,
                                                terminal_time, min_spread)]
    /\ UNCHANGED <<position, pnl, call, rt, quote, steps, estimate, tasks, fills, market_state, session, data_source, metrics>>

NextConfig ==
    \E risk_aversion \in RiskAversions, order_intensity \in OrderIntensities,
       terminal_time \in TerminalTimestamps, min_spread \in MinSpreads :
        New(risk_aversion, order_intensity, terminal_time, min_spread)

SpecConfig == Init /\ [][NextConfig]_vars

\* C15: StrategyConfig::new returns Err(InvalidConfiguration) if and only if
\* risk_aversion <= 0, order_intensity <= 0 or min_spread < 0; min_spread = 0
\* and every terminal_time (0 included) are accepted, and on success the four
\* fields of the returned config equal the four arguments.
C15_ConfigValidation ==
    config.op = "new" =>
        /\ ~config.result.ok <=>
              \/ config.risk_aversion <= ZERO
              \/ config.order_intensity <= ZERO
              \/ config.min_spread < ZERO
        /\ ~config.result.ok => config.result.err = "InvalidConfiguration"
        /\ config.result.ok =>
              /\ config.result.val.risk_aversion = config.risk_aversion
              /\ config.result.val.order_intensity = config.order_intensity
              /\ config.result.val.terminal_time = config.terminal_time
              /\ config.result.val.min_spread = config.min_spread

C15_Witness ==
    /\ config.op = "new"
    /\ config.risk_aversion = D(1) \div 2
    /\ config.order_intensity = D(3) \div 2
    /\ config.terminal_time = 0
    /\ config.min_spread = ZERO
    /\ config.result.ok
    /\ config.result.val = [risk_aversion |-> D(1) \div 2, order_intensity |-> D(3) \div 2,
                            terminal_time |-> 0, min_spread |-> ZERO]

(***************************************************************************)
(* VolatilityEstimator                                                     *)
(***************************************************************************)
\* a panic of the program (Decimal division by zero)
Panic(msg) == [ok |-> FALSE, err |-> "panic", msg |-> msg]

None == [some |-> FALSE]

Some(v) == [some |-> TRUE, val |-> v]

VolatilityEstimator_new == [annualization_factor |-> None]

with_annualization_factor(factor) == [annualization_factor |-> Some(factor)]

get_annualization_factor(self) ==
    IF self.annualization_factor.some
    THEN Ok(self.annualization_factor.val)
    ELSE decimal_sqrt(D(252))

RECURSIVE Sum(_)
Sum(s) == IF s = <<>> THEN ZERO ELSE Head(s) + Sum(Tail(s))

\* the sum of (r - mean)^2 over the returns
squared_deviations(returns, mean) ==
    Sum([i \in 1 .. Len(returns) |-> DecMul(returns[i] - mean, returns[i] - mean)])

RECURSIVE log_returns_from(_, _, _)
\* the loop over the prices from index i on: the log returns pushed so far are acc
log_returns_from(prices, i, acc) ==
    IF i > Len(prices) THEN Ok(acc)
    ELSE IF prices[i] <= ZERO \/ prices[i - 1] <= ZERO
    THEN Err("InvalidMarketState", "prices must be positive")
    ELSE LET ratio == DecDiv(prices[i], prices[i - 1])
             log_return == decimal_ln(ratio)
         IN  IF ~log_return.ok THEN log_return
             ELSE log_returns_from(prices, i + 1, Append(acc, log_return.val))

\* annualize: std_dev * annualization_factor
annualized(self, variance) ==
    LET std_dev == decimal_sqrt(variance)
        annualization_factor == get_annualization_factor(self)
    IN  IF ~std_dev.ok THEN std_dev
        ELSE IF ~annualization_factor.ok THEN annualization_factor
        ELSE Ok(DecMul(std_dev.val, annualization_factor.val))

\* calculate_simple whose variance does not subtract the mean
calculate_simple_raw_moment(self, prices) ==
    IF Len(prices) < 2
    THEN Err("InvalidMarketState", "need at least 2 prices to calculate volatility")
    ELSE LET log_returns == log_returns_from(prices, 2, <<>>)
         IN  IF ~log_returns.ok THEN log_returns
             ELSE LET n == Len(log_returns.val)
                      squared == squared_deviations(log_returns.val, ZERO)
                  IN  IF D(n - 1) = ZERO THEN Panic("Division by zero")
                      ELSE annualized(self, DecDiv(squared, D(n - 1)))

calculate_simple(self, prices) ==
    IF Len(prices) < 2
    THEN Err("InvalidMarketState", "need at least 2 prices to calculate volatility")
    ELSE LET log_returns == log_returns_from(prices, 2, <<>>)
         IN  IF ~log_returns.ok THEN log_returns
             ELSE LET n == Len(log_returns.val)
                      mean == DecDiv(Sum(log_returns.val), D(n))
                      squared == squared_deviations(log_returns.val, mean)
                  IN  IF D(n - 1) = ZERO THEN Panic("Division by zero")
                      ELSE annualized(self, DecDiv(squared, D(n - 1)))

\* the seed of the EWMA: the sample variance of the first 5 log returns, or of
\* all of them when there are fewer than 5
initial_variance(log_returns) ==
    IF Len(log_returns) >= 5
    THEN LET first_returns == SubSeq(log_returns, 1, 5)
             mean == DecDiv(Sum(first_returns), D(5))
         IN  Ok(DecDiv(squared_deviations(first_returns, mean), D(4)))
    ELSE LET mean == DecDiv(Sum(log_returns), D(Len(log_returns)))
         IN  IF D(Len(log_returns) - 1) = ZERO THEN Panic("Division by zero")
             ELSE Ok(DecDiv(squared_deviations(log_returns, mean),
                            D(Len(log_returns) - 1)))

RECURSIVE ewma_recursion(_, _, _, _)
\* the loop over the log returns from index i on
ewma_recursion(log_returns, lambda, variance, i) ==
    IF i > Len(log_returns) THEN variance
    ELSE LET squared_return == DecMul(log_returns[i], log_returns[i])
         IN  ewma_recursion(log_returns, lambda,
                            DecMul(lambda, variance)
                                + DecMul(ONE - lambda, squared_return),
                            i + 1)

\* calculate_ewma whose recursion starts after the returns that built the seed
calculate_ewma_skip_seed_returns(self, prices, lambda) ==
    IF Len(prices) < 2
    THEN Err("InvalidMarketState", "need at least 2 prices for EWMA")
    ELSE IF lambda <= ZERO \/ lambda >= ONE
    THEN Err("InvalidConfiguration", "lambda must be between 0 and 1")
    ELSE LET log_returns == log_returns_from(prices, 2, <<>>)
         IN  IF ~log_returns.ok THEN log_returns
             ELSE LET seed == initial_variance(log_returns.val)
                  IN  IF ~seed.ok THEN seed
                      ELSE annualized(self, ewma_recursion(log_returns.val, lambda,
                                          seed.val, Min(5, Len(log_returns.val)) + 1))

calculate_ewma(self, prices, lambda) ==
    IF Len(prices) < 2
    THEN Err("InvalidMarketState", "need at least 2 prices for EWMA")
    ELSE IF lambda <= ZERO \/ lambda >= ONE
    THEN Err("InvalidConfiguration", "lambda must be between 0 and 1")
    ELSE LET log_returns == log_returns_from(prices, 2, <<>>)
         IN  IF ~log_returns.ok THEN log_returns
             ELSE LET seed == initial_variance(log_returns.val)
                  IN  IF ~seed.ok THEN seed
                      ELSE annualized(self, ewma_recursion(log_returns.val, lambda,
                                                           seed.val, 1))

RECURSIVE sum_squared_ratios_from(_, _, _, _)
\* the loop over the price pairs from index i on
sum_squared_ratios_from(high_prices, low_prices, i, acc) ==
    IF i > Len(high_prices) THEN Ok(acc)
    ELSE IF high_prices[i] <= ZERO \/ low_prices[i] <= ZERO
    THEN Err("InvalidMarketState", "prices must be positive")
    ELSE IF high_prices[i] < low_prices[i]
    THEN Err("InvalidMarketState", "high price must be >= low price")
    ELSE LET ratio == DecDiv(high_prices[i], low_prices[i])
             log_ratio == decimal_ln(ratio)
         IN  IF ~log_ratio.ok THEN log_ratio
             ELSE sum_squared_ratios_from(high_prices, low_prices, i + 1,
                                          acc + DecMul(log_ratio.val, log_ratio.val))

RECURSIVE sum_squared_ratios_strict_from(_, _, _, _)
\* the loop of calculate_parkinson rejecting a high price equal to the low price
sum_squared_ratios_strict_from(high_prices, low_prices, i, acc) ==
    IF i > Len(high_prices) THEN Ok(acc)
    ELSE IF high_prices[i] <= ZERO \/ low_prices[i] <= ZERO
    THEN Err("InvalidMarketState", "prices must be positive")
    ELSE IF high_prices[i] <= low_prices[i]
    THEN Err("InvalidMarketState", "high price must be >= low price")
    ELSE LET ratio == DecDiv(high_prices[i], low_prices[i])
             log_ratio == decimal_ln(ratio)
         IN  IF ~log_ratio.ok THEN log_ratio
             ELSE sum_squared_ratios_strict_from(high_prices, low_prices, i + 1,
                                                 acc + DecMul(log_ratio.val, log_ratio.val))

\* calculate_parkinson requiring high > low
calculate_parkinson_strict_range(self, high_prices, low_prices) ==
    IF Len(high_prices) # Len(low_prices)
    THEN Err("InvalidMarketState", "high and low price vectors must have same length")
    ELSE IF Len(high_prices) = 0
    THEN Err("InvalidMarketState", "need at least 1 price pair for Parkinson estimator")
    ELSE LET sum_squared_ratios ==
                 sum_squared_ratios_strict_from(high_prices, low_prices, 1, ZERO)
             ln_2 == decimal_ln(D(2))
             n == D(Len(high_prices))
             four == D(4)
         IN  IF ~sum_squared_ratios.ok THEN sum_squared_ratios
             ELSE IF ~ln_2.ok THEN ln_2
             ELSE annualized(self, DecDiv(sum_squared_ratios.val,
                                          DecMul(DecMul(four, n), ln_2.val)))

calculate_parkinson(self, high_prices, low_prices) ==
    IF Len(high_prices) # Len(low_prices)
    THEN Err("InvalidMarketState", "high and low price vectors must have same length")
    ELSE IF Len(high_prices) = 0
    THEN Err("InvalidMarketState", "need at least 1 price pair for Parkinson estimator")
    ELSE LET sum_squared_ratios == sum_squared_ratios_from(high_prices, low_prices, 1, ZERO)
             ln_2 == decimal_ln(D(2))
             n == D(Len(high_prices))
             four == D(4)
         IN  IF ~sum_squared_ratios.ok THEN sum_squared_ratios
             ELSE IF ~ln_2.ok THEN ln_2
             ELSE annualized(self, DecDiv(sum_squared_ratios.val,
                                          DecMul(DecMul(four, n), ln_2.val)))

(***************************************************************************)
(* Calls of the three estimators: the initial state holds the arguments of *)
(* one call, the action of that call stores its result                     *)
(***************************************************************************)
MaxLen == 3

MaxLongLen == 7

MaxPairs == 2

\* all sequences over S with lengths lo .. hi
SeqsOf(S, lo, hi) == UNION {[1 .. n -> S] : n \in lo .. hi}

\* D(10001) / 100 is a price 0.01% above D(100): the square of that log return
\* is rounded to zero
ShortPrices == {D(-50), ZERO, D(50), D(100), D(10001) \div 100, D(200)}

LongPrices == {D(100), D(200)}

PriceSeries == SeqsOf(ShortPrices, 0, MaxLen) \cup SeqsOf(LongPrices, MaxLen + 1, MaxLongLen)

RangePrices == {D(-50), ZERO, D(100), D(10001) \div 100, D(200)}

RangeSeries == SeqsOf(RangePrices, 0, MaxPairs)

Lambdas ==
    {D(-1) \div 2, ZERO, D(1) \div 10, D(94) \div 100, D(9999) \div 10000, ONE, D(3) \div 2}

\* the default estimator, one for hourly data and one with a factor far below 1
Estimators ==
    {VolatilityEstimator_new, with_annualization_factor(D(87178) \div 1000),
     with_annualization_factor(D(1) \div 10000)}

EstimatorCalls ==
    [op : {"calculate_simple"}, done : {FALSE}, self : Estimators, prices : PriceSeries]
    \cup [op : {"calculate_ewma"}, done : {FALSE}, self : Estimators,
          prices : PriceSeries, lambda : Lambdas]
    \cup [op : {"calculate_parkinson"}, done : {FALSE}, self : Estimators,
          high_prices : RangeSeries, low_prices : RangeSeries]

InitVolatility ==
    /\ position = InventoryPosition_new
    /\ pnl = PnL_new
    /\ call = NoCall
    /\ rt = NoRt
    /\ quote = NoQuote
    /\ config = NoConfig
    /\ estimate \in EstimatorCalls
    /\ tasks = NoTasks
    /\ fills = NoFills
    /\ market_state = NoMarketState
    /\ session = NoSession
    /\ data_source = NoDataSource
    /\ metrics = NoMetrics
    /\ steps = 0

Answered(result) ==
    [x \in DOMAIN estimate \cup {"result"} |->
        IF x = "result" THEN result ELSE IF x = "done" THEN TRUE ELSE estimate[x]]

CalculateSimple ==
    /\ estimate.op = "calculate_simple"
    /\ ~estimate.done
    /\ estimate' = Answered(calculate_simple(estimate.self, estimate.prices))
    /\ UNCHANGED <<position, pnl, call, rt, quote, config, steps, tasks, fills, market_state, session, data_source, metrics>>

CalculateEwma ==
    /\ estimate.op = "calculate_ewma"
    /\ ~estimate.done
    /\ estimate' = Answered(calculate_ewma(estimate.self, estimate.prices, estimate.lambda))
    /\ UNCHANGED <<position, pnl, call, rt, quote, config, steps, tasks, fills, market_state, session, data_source, metrics>>

CalculateParkinson ==
    /\ estimate.op = "calculate_parkinson"
    /\ ~estimate.done
    /\ estimate' = Answered(calculate_parkinson(estimate.self, estimate.high_prices,
                                                estimate.low_prices))
    /\ UNCHANGED <<position, pnl, call, rt, quote, config, steps, tasks, fills, market_state, session, data_source, metrics>>

NextVolatility ==
    \/ CalculateSimple
    \/ CalculateEwma
    \/ CalculateParkinson

SpecVolatility == InitVolatility /\ [][NextVolatility]_vars

(***************************************************************************)
(* Properties of the estimators (SpecVolatility)                           *)
(***************************************************************************)
Answer(op) == estimate.op = op /\ estimate.done

AllPositive(prices) == \A i \in 1 .. Len(prices) : prices[i] > ZERO

EstimateIsErr(kind) == ~estimate.result.ok /\ estimate.result.err = kind

\* C16: calculate_simple fails with InvalidMarketState when fewer than 2 prices
\* are supplied or when any price is <= 0, and for every sequence of 2 or more
\* positive prices (length 2 included) it returns a result rather than failing
\* or aborting.
C16_SimpleAcceptsTwoPrices ==
    Answer("calculate_simple") =>
        /\ (Len(estimate.prices) < 2 \/ ~AllPositive(estimate.prices))
             => EstimateIsErr("InvalidMarketState")
        /\ (Len(estimate.prices) >= 2 /\ AllPositive(estimate.prices))
             => estimate.result.ok

\* C17: calculate_ewma fails with InvalidMarketState when fewer than 2 prices
\* are supplied (whatever lambda is), with InvalidConfiguration when lambda <= 0
\* or lambda >= 1, and with InvalidMarketState when any price is <= 0; for every
\* sequence of 2 or more positive prices (length 2 included) with 0 < lambda < 1
\* it returns a result rather than failing or aborting.
C17_EwmaAcceptsTwoPrices ==
    Answer("calculate_ewma") =>
        LET enough == Len(estimate.prices) >= 2
            lambda_ok == estimate.lambda > ZERO /\ estimate.lambda < ONE
        IN  /\ ~enough => EstimateIsErr("InvalidMarketState")
            /\ (enough /\ ~lambda_ok) => EstimateIsErr("InvalidConfiguration")
            /\ (enough /\ lambda_ok /\ ~AllPositive(estimate.prices))
                 => EstimateIsErr("InvalidMarketState")
            /\ (enough /\ lambda_ok /\ AllPositive(estimate.prices))
                 => estimate.result.ok

\* equal non-zero lengths and high >= low > 0 in every pair
ValidRanges(high_prices, low_prices) ==
    /\ Len(high_prices) = Len(low_prices)
    /\ Len(high_prices) > 0
    /\ \A i \in 1 .. Len(high_prices) :
          high_prices[i] >= low_prices[i] /\ low_prices[i] > ZERO

\* C18: calculate_parkinson fails with InvalidMarketState when the high and low
\* arrays differ in length, when they are empty, when any high or low is <= 0,
\* or when some high < low; arrays of equal non-zero length in which every
\* high >= low > 0 (high = low allowed) are accepted.
C18_ParkinsonValidation ==
    Answer("calculate_parkinson") =>
        /\ Len(estimate.high_prices) # Len(estimate.low_prices)
             => EstimateIsErr("InvalidMarketState")
        /\ Len(estimate.high_prices) = 0 => EstimateIsErr("InvalidMarketState")
        /\ ~ValidRanges(estimate.high_prices, estimate.low_prices)
             => EstimateIsErr("InvalidMarketState")
        /\ ValidRanges(estimate.high_prices, estimate.low_prices)
             => estimate.result.ok

\* two pairs, the first with high = low
C18_Witness ==
    /\ Answer("calculate_parkinson")
    /\ estimate.high_prices = <<D(100), D(200)>>
    /\ estimate.low_prices = <<D(100), D(100)>>
    /\ estimate.result.ok
    /\ estimate.result.val > ZERO

\* the log returns ln(P[i+1] / P[i]) of a series of positive prices
ReturnsOf(prices) ==
    [i \in 1 .. Len(prices) - 1 |-> decimal_ln(DecDiv(prices[i + 1], prices[i])).val]

\* the sample variance (n - 1 denominator) of two or more returns
SampleVariance(returns) ==
    LET n == Len(returns)
        mean == DecDiv(Sum(returns), D(n))
    IN  DecDiv(Sum([i \in 1 .. n |-> DecMul(returns[i] - mean, returns[i] - mean)]),
               D(n - 1))

RECURSIVE VarianceAfter(_, _, _, _)
\* the variance after the first k returns, starting from the seed
VarianceAfter(returns, lambda, seed, k) ==
    IF k = 0 THEN seed
    ELSE DecMul(lambda, VarianceAfter(returns, lambda, seed, k - 1))
            + DecMul(ONE - lambda, DecMul(returns[k], returns[k]))

FactorOf(self) ==
    IF self.annualization_factor.some THEN self.annualization_factor.val
    ELSE decimal_sqrt(D(252)).val

\* the volatility the claim describes
EwmaExpected(self, prices, lambda) ==
    LET returns == ReturnsOf(prices)
        seed == SampleVariance(SubSeq(returns, 1, Min(5, Len(returns))))
        final == VarianceAfter(returns, lambda, seed, Len(returns))
    IN  DecMul(decimal_sqrt(final).val, FactorOf(self))

\* C19: calculate_ewma seeds the variance with the sample variance (n - 1
\* denominator) of the first 5 log returns, or of all of them when fewer than 5
\* exist, then applies variance := lambda * variance + (1 - lambda) * r^2 once
\* for every log return in order, the seed's returns included; the result is the
\* square root of the final variance times the annualization factor.
C19_EwmaRecursion ==
    (/\ Answer("calculate_ewma")
     /\ Len(estimate.prices) >= 3
     /\ AllPositive(estimate.prices)
     /\ estimate.lambda > ZERO
     /\ estimate.lambda < ONE) =>
        estimate.result = Ok(EwmaExpected(estimate.self, estimate.prices, estimate.lambda))

\* six returns: the seed is built from the first five and differs from the
\* sample variance of all six
C19_Witness ==
    /\ Answer("calculate_ewma")
    /\ estimate.prices = <<D(100), D(200), D(100), D(200), D(100), D(200), D(200)>>
    /\ estimate.lambda = D(94) \div 100
    /\ estimate.self = VolatilityEstimator_new
    /\ estimate.result.ok
    /\ estimate.result.val > ZERO
    /\ SampleVariance(SubSeq(ReturnsOf(estimate.prices), 1, 5))
          # SampleVariance(ReturnsOf(estimate.prices))

PositiveFactor(self) ==
    self.annualization_factor.some => self.annualization_factor.val > ZERO

NotAllEqual(prices) == \E i, j \in 1 .. Len(prices) : prices[i] # prices[j]

MinMove == D(1) \div 10

\* the largest lambda for which the amended C20 promises a positive volatility
MaxDecay == D(99) \div 100

FactorAtLeastOne(self) ==
    self.annualization_factor.some => self.annualization_factor.val >= ONE

AllEqualReturns(returns) == \A i, j \in 1 .. Len(returns) : returns[i] = returns[j]

\* returns that differ, differ by MinMove or more
Separated(returns) ==
    \A i, j \in 1 .. Len(returns) :
        returns[i] = returns[j] \/ Abs(returns[i] - returns[j]) >= MinMove

LogRatiosOf(high_prices, low_prices) ==
    [i \in 1 .. Len(high_prices) |-> decimal_ln(DecDiv(high_prices[i], low_prices[i])).val]

NTasks == 2

Tasks == 1 .. NTasks

Pending == [ok |-> FALSE, err |-> "pending", msg |-> ""]

NoLocals == [reservation_price |-> ZERO, spread |-> ZERO, log_returns |-> <<>>]

ConcurrentCalls ==
    [fn : {"optimal_quotes"}, mid_price : {ZERO, D(50), D(100)}, inventory : {D(10)},
     risk_aversion : {D(1)}, volatility : {D(2)}, time_to_terminal_ms : {1576800000},
     order_intensity : {ZERO, D(3) \div 2}]
    \cup [fn : {"reservation_price"}, mid_price : {D(100)}, inventory : {D(-10), D(10)},
          risk_aversion : {D(1)}, volatility : {D(2)},
          time_to_terminal_ms : {1576800000}]
    \cup [fn : {"optimal_spread"}, risk_aversion : {D(1)}, volatility : {D(1), D(2)},
          time_to_terminal_ms : {1576800000}, order_intensity : {D(3) \div 2}]
    \cup [fn : {"calculate_simple"}, self : {VolatilityEstimator_new},
          prices : {<<D(100)>>, <<D(100), D(200), D(100)>>, <<D(100), D(200), D(200)>>}]
    \cup [fn : {"calculate_ewma"}, self : {VolatilityEstimator_new},
          prices : {<<D(100), D(200), D(100)>>}, lambda : {D(1) \div 10, D(94) \div 100}]
    \cup [fn : {"calculate_parkinson"}, self : {VolatilityEstimator_new},
          high_prices : {<<D(200)>>, <<D(100)>>}, low_prices : {<<D(100)>>}]

InitConcurrent ==
    /\ position = InventoryPosition_new
    /\ pnl = PnL_new
    /\ call = NoCall
    /\ rt = NoRt
    /\ quote = NoQuote
    /\ config = NoConfig
    /\ estimate = NoEstimate
    /\ tasks \in [Tasks -> [call : ConcurrentCalls, pc : {"start"}, local : {NoLocals},
                            result : {Pending}]]
    /\ fills = NoFills
    /\ market_state = NoMarketState
    /\ session = NoSession
    /\ data_source = NoDataSource
    /\ metrics = NoMetrics
    /\ steps = 0

Others == <<position, pnl, call, rt, quote, config, estimate, fills, market_state, session,
           data_source, metrics, steps>>

\* task t returns result
Return(t, result) ==
    tasks' = [tasks EXCEPT ![t].pc = "done", ![t].result = result]

\* calculate_optimal_quotes, first statement: the reservation price, or its error
QuotesReservation(t) ==
    /\ tasks[t].pc = "start"
    /\ tasks[t].call.fn = "optimal_quotes"
    /\ LET c == tasks[t].call
           r == calculate_reservation_price(c.mid_price, c.inventory, c.risk_aversion,
                                            c.volatility, c.time_to_terminal_ms)
       IN  IF ~r.ok THEN Return(t, r)
           ELSE tasks' = [tasks EXCEPT ![t].pc = "reserved",
                                       ![t].local.reservation_price = r.val]
    /\ UNCHANGED Others

\* calculate_optimal_quotes, second statement: the spread, or its error
QuotesSpread(t) ==
    /\ tasks[t].pc = "reserved"
    /\ LET c == tasks[t].call
           s == calculate_optimal_spread(c.risk_aversion, c.volatility,
                                         c.time_to_terminal_ms, c.order_intensity)
       IN  IF ~s.ok THEN Return(t, s)
           ELSE tasks' = [tasks EXCEPT ![t].pc = "spread", ![t].local.spread = s.val]
    /\ UNCHANGED Others

\* QuotesCombine reading the reservation price that task 1 stored
QuotesCombine_shared_reservation(t) ==
    /\ tasks[t].pc = "spread"
    /\ LET half_spread == DecDiv(tasks[t].local.spread, D(2))
           bid_price == tasks[1].local.reservation_price - half_spread
           ask_price == tasks[1].local.reservation_price + half_spread
       IN  IF bid_price >= ask_price
           THEN Return(t, Err("InvalidQuoteGeneration",
                              "bid price must be less than ask price"))
           ELSE IF bid_price <= ZERO
           THEN Return(t, Err("InvalidQuoteGeneration", "bid price must be positive"))
           ELSE Return(t, Ok(<<bid_price, ask_price>>))
    /\ UNCHANGED Others

\* calculate_optimal_quotes, the rest: bid and ask from the two locals
QuotesCombine(t) ==
    /\ tasks[t].pc = "spread"
    /\ LET half_spread == DecDiv(tasks[t].local.spread, D(2))
           bid_price == tasks[t].local.reservation_price - half_spread
           ask_price == tasks[t].local.reservation_price + half_spread
       IN  IF bid_price >= ask_price
           THEN Return(t, Err("InvalidQuoteGeneration",
                              "bid price must be less than ask price"))
           ELSE IF bid_price <= ZERO
           THEN Return(t, Err("InvalidQuoteGeneration", "bid price must be positive"))
           ELSE Return(t, Ok(<<bid_price, ask_price>>))
    /\ UNCHANGED Others

CallReservationPrice(t) ==
    /\ tasks[t].pc = "start"
    /\ tasks[t].call.fn = "reservation_price"
    /\ LET c == tasks[t].call
       IN  Return(t, calculate_reservation_price(c.mid_price, c.inventory, c.risk_aversion,
                                                 c.volatility, c.time_to_terminal_ms))
    /\ UNCHANGED Others

CallOptimalSpread(t) ==
    /\ tasks[t].pc = "start"
    /\ tasks[t].call.fn = "optimal_spread"
    /\ LET c == tasks[t].call
       IN  Return(t, calculate_optimal_spread(c.risk_aversion, c.volatility,
                                              c.time_to_terminal_ms, c.order_intensity))
    /\ UNCHANGED Others

\* calculate_simple up to the end of the loop: the log returns, or an error
SimpleLogReturns(t) ==
    /\ tasks[t].pc = "start"
    /\ tasks[t].call.fn = "calculate_simple"
    /\ LET prices == tasks[t].call.prices
       IN  IF Len(prices) < 2
           THEN Return(t, Err("InvalidMarketState",
                              "need at least 2 prices to calculate volatility"))
           ELSE LET log_returns == log_returns_from(prices, 2, <<>>)
                IN  IF ~log_returns.ok THEN Return(t, log_returns)
                    ELSE tasks' = [tasks EXCEPT ![t].pc = "returns",
                                       ![t].local.log_returns = log_returns.val]
    /\ UNCHANGED Others

\* calculate_simple after the loop: mean, variance, annualized deviation
SimpleVariance(t) ==
    /\ tasks[t].pc = "returns"
    /\ LET log_returns == tasks[t].local.log_returns
           n == Len(log_returns)
           mean == DecDiv(Sum(log_returns), D(n))
           squared == squared_deviations(log_returns, mean)
       IN  IF D(n - 1) = ZERO THEN Return(t, Panic("Division by zero"))
           ELSE Return(t, annualized(tasks[t].call.self, DecDiv(squared, D(n - 1))))
    /\ UNCHANGED Others

CallEwma(t) ==
    /\ tasks[t].pc = "start"
    /\ tasks[t].call.fn = "calculate_ewma"
    /\ LET c == tasks[t].call
       IN  Return(t, calculate_ewma(c.self, c.prices, c.lambda))
    /\ UNCHANGED Others

CallParkinson(t) ==
    /\ tasks[t].pc = "start"
    /\ tasks[t].call.fn = "calculate_parkinson"
    /\ LET c == tasks[t].call
       IN  Return(t, calculate_parkinson(c.self, c.high_prices, c.low_prices))
    /\ UNCHANGED Others

NextConcurrent ==
    \E t \in Tasks :
        \/ QuotesReservation(t)
        \/ QuotesSpread(t)
        \/ QuotesCombine(t)
        \/ CallReservationPrice(t)
        \/ CallOptimalSpread(t)
        \/ SimpleLogReturns(t)
        \/ SimpleVariance(t)
        \/ CallEwma(t)
        \/ CallParkinson(t)

SpecConcurrent == InitConcurrent /\ [][NextConcurrent]_vars

\* the result of a call executed alone
Alone(c) ==
    CASE c.fn = "optimal_quotes" ->
             calculate_optimal_quotes(c.mid_price, c.inventory, c.risk_aversion,
                                      c.volatility, c.time_to_terminal_ms,
                                      c.order_intensity)
      [] c.fn = "reservation_price" ->
             calculate_reservation_price(c.mid_price, c.inventory, c.risk_aversion,
                                         c.volatility, c.time_to_terminal_ms)
      [] c.fn = "optimal_spread" ->
             calculate_optimal_spread(c.risk_aversion, c.volatility,
                                      c.time_to_terminal_ms, c.order_intensity)
      [] c.fn = "calculate_simple" -> calculate_simple(c.self, c.prices)
      [] c.fn = "calculate_ewma" -> calculate_ewma(c.self, c.prices, c.lambda)
      [] c.fn = "calculate_parkinson" ->
             calculate_parkinson(c.self, c.high_prices, c.low_prices)

\* C21: the three quoting functions and the three estimators share no mutable
\* state: in every interleaving of concurrent calls each finished call has the
\* result of the same call executed alone, and two finished calls with equal
\* arguments have equal results.
C21_PureUnderInterleaving ==
    /\ \A t \in DOMAIN tasks :
          tasks[t].pc = "done" => tasks[t].result = Alone(tasks[t].call)
    /\ \A t, u \in DOMAIN tasks :
          (tasks[t].pc = "done" /\ tasks[u].pc = "done" /\ tasks[t].call = tasks[u].call)
              => tasks[t].result = tasks[u].result

\* task 2 finished its quotes for mid 50 while task 1, quoting mid 100, holds
\* its own reservation price and has not combined yet
C21_Witness ==
    /\ DOMAIN tasks = Tasks
    /\ tasks[1].call.fn = "optimal_quotes"
    /\ tasks[1].call.mid_price = D(100)
    /\ tasks[1].pc = "spread"
    /\ tasks[2].call.fn = "optimal_quotes"
    /\ tasks[2].call.mid_price = D(50)
    /\ tasks[2].pc = "done"
    /\ tasks[2].result.ok
    /\ tasks[2].result.val[2] < tasks[1].local.reservation_price

(***************************************************************************)
(* A session that builds its StrategyConfig and then quotes from it        *)
(***************************************************************************)
SessionMidPrices == {D(1), D(100)}

SessionInventories == {ZERO, D(10)}

SessionVolatilities == {D(1) \div 100, D(2)}

\* quoting from a config that keeps the computed spread at least min_spread wide
quotes_from_config_min_spread_enforced(cfg, mid_price, inventory, volatility) ==
    LET quotes == calculate_optimal_quotes(mid_price, inventory, cfg.risk_aversion,
                                           volatility, cfg.terminal_time,
                                           cfg.order_intensity)
    IN  IF quotes.ok /\ quotes.val[2] - quotes.val[1] < cfg.min_spread
        THEN Ok(<<quotes.val[1], quotes.val[1] + cfg.min_spread>>)
        ELSE quotes

\* the quoting call of a session: the config contributes risk_aversion,
\* terminal_time and order_intensity
quotes_from_config(cfg, mid_price, inventory, volatility) ==
    calculate_optimal_quotes(mid_price, inventory, cfg.risk_aversion, volatility,
                             cfg.terminal_time, cfg.order_intensity)

SessionNew ==
    /\ config = NoConfig
    /\ \E risk_aversion \in RiskAversions, order_intensity \in OrderIntensities,
          terminal_time \in TerminalTimestamps, min_spread \in MinSpreads :
           New(risk_aversion, order_intensity, terminal_time, min_spread)

SessionQuotes(mid_price, inventory, volatility) ==
    /\ config.op = "new"
    /\ config.result.ok
    /\ quote = NoQuote
    /\ quote' = [fn |-> "session_quotes", mid_price |-> mid_price,
                 inventory |-> inventory, volatility |-> volatility,
                 result |-> quotes_from_config(config.result.val, mid_price,
                                               inventory, volatility)]
    /\ UNCHANGED <<position, pnl, call, rt, config, estimate, tasks, steps, fills, market_state, session, data_source, metrics>>

NextSession ==
    \/ SessionNew
    \/ \E mid_price \in SessionMidPrices, inventory \in SessionInventories,
          volatility \in SessionVolatilities :
           SessionQuotes(mid_price, inventory, volatility)

SpecSession == Init /\ [][NextSession]_vars

C23_PnLFrame ==
    /\ call.op = "add_realized" =>
          /\ pnl.realized = call.pre.realized + call.amount
          /\ pnl.unrealized = call.pre.unrealized
    /\ call.op = "set_unrealized" =>
          /\ pnl.unrealized = call.amount
          /\ pnl.realized = call.pre.realized
    /\ call.op = "update" =>
          /\ pnl.realized = call.realized
          /\ pnl.unrealized = call.unrealized
    /\ (steps = 1 /\ call.op = "add_realized" /\ call.amount = D(100)) =>
          pnl = [realized |-> D(100), unrealized |-> ZERO, total |-> D(100)]
    /\ (steps = 2 /\ call.op = "set_unrealized" /\ call.amount = D(50)
        /\ call.pre = [realized |-> D(100), unrealized |-> ZERO, total |-> D(100)]) =>
          pnl = [realized |-> D(100), unrealized |-> D(50), total |-> D(150)]
    /\ (steps = 3 /\ call.op = "add_realized" /\ call.amount = D(-25)
        /\ call.pre = [realized |-> D(100), unrealized |-> D(50), total |-> D(150)]) =>
          pnl = [realized |-> D(75), unrealized |-> D(50), total |-> D(125)]

\* the ledger after add_realized(100), set_unrealized(50), add_realized(-25)
C23_Witness ==
    /\ steps = 3
    /\ call.op = "add_realized"
    /\ call.amount = D(-25)
    /\ call.pre = [realized |-> D(100), unrealized |-> D(50), total |-> D(150)]
    /\ pnl = [realized |-> D(75), unrealized |-> D(50), total |-> D(125)]

\* update called on a ledger that had accumulated realized PnL
C23_UpdateWitness ==
    /\ call.op = "update"
    /\ call.pre.realized # ZERO
    /\ pnl.realized # call.pre.realized

(***************************************************************************)
(* Error order of calculate_optimal_quotes (SpecQuotes)                    *)
(***************************************************************************)
\* C24 as stated: the error kind of calculate_optimal_quotes is decided in the
\* order mid_price <= 0 (InvalidMarketState), volatility <= 0
\* (InvalidMarketState), risk_aversion <= 0 (InvalidConfiguration),
\* order_intensity <= 0 (InvalidConfiguration); a non-positive volatility is
\* always InvalidMarketState and InvalidQuoteGeneration needs all four
\* parameters positive.
C24_ErrorKindByArgumentOrder ==
    IsQuotes =>
        /\ quote.mid_price <= ZERO
             => ResultIsErr("InvalidMarketState", "mid_price must be positive")
        /\ (quote.mid_price > ZERO /\ quote.volatility <= ZERO)
             => ResultIsErr("InvalidMarketState", "volatility must be positive")
        /\ (quote.mid_price > ZERO /\ quote.volatility > ZERO
                /\ quote.risk_aversion <= ZERO)
             => ResultIsErr("InvalidConfiguration", "risk_aversion must be positive")
        /\ (quote.mid_price > ZERO /\ quote.volatility > ZERO
                /\ quote.risk_aversion > ZERO /\ quote.order_intensity <= ZERO)
             => ResultIsErr("InvalidConfiguration", "order_intensity must be positive")
        /\ quote.volatility <= ZERO
             => (~quote.result.ok /\ quote.result.err = "InvalidMarketState")
        /\ IsInvalidQuoteGeneration
             => (/\ quote.mid_price > ZERO
                 /\ quote.volatility > ZERO
                 /\ quote.risk_aversion > ZERO
                 /\ quote.order_intensity > ZERO)

\* C24 amended: calculate_optimal_quotes returns the error of the reservation
\* price if there is one, else the error of the spread, so the kind is decided
\* in the order mid_price <= 0 (InvalidMarketState), volatility <= 0
\* (InvalidMarketState), risk_aversion <= 0 (InvalidConfiguration), the
\* NumericalError of a volatility whose square is not representable, and only
\* then order_intensity <= 0 (InvalidConfiguration); a non-positive volatility
\* is always InvalidMarketState, and InvalidQuoteGeneration needs all four
\* parameters positive.
C24_FirstErrorWins ==
    IsQuotes =>
        /\ ~QuoteR.ok => quote.result = QuoteR
        /\ (QuoteR.ok /\ ~QuoteS.ok) => quote.result = QuoteS
        /\ quote.mid_price <= ZERO
             => ResultIsErr("InvalidMarketState", "mid_price must be positive")
        /\ (quote.mid_price > ZERO /\ quote.volatility <= ZERO)
             => ResultIsErr("InvalidMarketState", "volatility must be positive")
        /\ (quote.mid_price > ZERO /\ quote.volatility > ZERO
                /\ quote.risk_aversion <= ZERO)
             => ResultIsErr("InvalidConfiguration", "risk_aversion must be positive")
        /\ (quote.mid_price > ZERO /\ quote.volatility > ZERO
                /\ quote.risk_aversion > ZERO /\ quote.order_intensity <= ZERO
                /\ ~QuoteR.ok)
             => (~quote.result.ok /\ quote.result.err = "NumericalError")
        /\ (quote.mid_price > ZERO /\ quote.volatility > ZERO
                /\ quote.risk_aversion > ZERO /\ quote.order_intensity <= ZERO
                /\ QuoteR.ok)
             => ResultIsErr("InvalidConfiguration", "order_intensity must be positive")
        /\ quote.volatility <= ZERO
             => (~quote.result.ok /\ quote.result.err = "InvalidMarketState")
        /\ IsInvalidQuoteGeneration
             => (/\ quote.mid_price > ZERO
                 /\ quote.volatility > ZERO
                 /\ quote.risk_aversion > ZERO
                 /\ quote.order_intensity > ZERO)

\* only the volatility is invalid: the spread alone would report
\* InvalidConfiguration, the quotes report InvalidMarketState
C24_Witness ==
    /\ IsQuotes
    /\ quote.mid_price = D(100)
    /\ quote.volatility = ZERO
    /\ quote.risk_aversion = D(1)
    /\ quote.order_intensity = D(3) \div 2
    /\ QuoteS.err = "InvalidConfiguration"
    /\ ResultIsErr("InvalidMarketState", "volatility must be positive")

\* the order intensity is invalid and the volatility has no representable
\* square: the reservation price's NumericalError is returned
C24_NumericalErrorWitness ==
    /\ IsQuotes
    /\ quote.mid_price = D(100)
    /\ quote.volatility = D(300)
    /\ quote.risk_aversion = D(1)
    /\ quote.order_intensity = ZERO
    /\ ~quote.result.ok
    /\ quote.result.err = "NumericalError"

\* the order intensity is the only invalid argument
C24_OrderIntensityWitness ==
    /\ IsQuotes
    /\ quote.mid_price = D(100)
    /\ quote.volatility = D(1)
    /\ quote.risk_aversion = D(1)
    /\ quote.order_intensity = ZERO
    /\ ResultIsErr("InvalidConfiguration", "order_intensity must be positive")

(***************************************************************************)
(* Inventory skew of the quotes (SpecQuotes)                               *)
(***************************************************************************)
\* the quotes of the last call's arguments with another inventory
QuotesAt(inventory) ==
    calculate_optimal_quotes(quote.mid_price, inventory, quote.risk_aversion,
                             quote.volatility, quote.time_to_terminal_ms,
                             quote.order_intensity)

ValidQuoteArgs ==
    /\ quote.mid_price > ZERO
    /\ quote.risk_aversion > ZERO
    /\ quote.volatility > ZERO
    /\ quote.order_intensity > ZERO
    /\ quote.time_to_terminal_ms > 0

\* halving the spread is exact
ExactHalf(spread) == DecDiv(spread, D(2)) + DecDiv(spread, D(2)) = spread

C25_OddSpreadWitness ==
    /\ IsQuotes
    /\ ValidQuoteArgs
    /\ quote.result.ok
    /\ ~ExactHalf(QuoteS.val)
    /\ Ask - Bid # QuoteS.val

\* two inventories whose rounded adjustments are equal: the quotes do not move
C25_RoundedSkewWitness ==
    /\ IsQuotes
    /\ ValidQuoteArgs
    /\ quote.result.ok
    /\ \E q2 \in Inventories :
          /\ q2 > quote.inventory
          /\ QuotesAt(q2) = quote.result

(***************************************************************************)
(* The position against the fills applied to it (Spec)                     *)
(***************************************************************************)
\* C26: after any sequence of update_fill calls on a new position, quantity is
\* the sum of all fill quantities applied and last_update is the timestamp of
\* the most recent call, also when that timestamp is below an earlier one and
\* when a fill quantity is 0; update_fill applies every fill.
C26_QuantityIsSumOfFills ==
    /\ position.quantity = fills.quantity
    /\ fills.count = 0 => position.last_update = 0
    /\ fills.count > 0 => position.last_update = fills.last_timestamp
    /\ IsFill =>
          /\ position.quantity = PreQ + call.fill_quantity
          /\ position.last_update = call.timestamp

\* a fill of quantity 0 stamped 0 applied after fills stamped 1
C26_Witness ==
    /\ IsFill
    /\ fills.count = MaxSteps
    /\ call.fill_quantity = ZERO
    /\ call.timestamp = 0
    /\ call.pre.last_update = 1
    /\ position.last_update = 0
    /\ position.quantity = fills.quantity
    /\ position.quantity # ZERO

(***************************************************************************)
(* The example sessions: real_time_simulation (MarketMaker), full_strategy *)
(* and inventory_management.  A session owns position, pnl and the mid     *)
(* price; call records the last fill and the realized amount it booked.    *)
(***************************************************************************)
Programs == {"real_time_simulation", "full_strategy", "inventory_management"}

SessionFillQuantities == {D(-20), D(-10), ZERO, D(10), D(20)}

SessionFillPrices == {D(95), D(100), D(105)}

SessionMidPrices2 == {D(95), D(100), D(105)}

InitSessions ==
    /\ position = InventoryPosition_new
    /\ pnl = PnL_new
    /\ call = NoCall
    /\ rt = NoRt
    /\ quote = NoQuote
    /\ config = NoConfig
    /\ estimate = NoEstimate
    /\ tasks = NoTasks
    /\ fills = NoFills
    /\ market_state = [mid_price |-> D(100), timestamp |-> 0]
    /\ session \in [program : Programs, step : {0}]
    /\ data_source = NoDataSource
    /\ metrics = NoMetrics
    /\ steps = 0

SessionFrame == <<rt, quote, config, estimate, tasks, data_source, metrics>>

\* MarketMaker::handle_fill that books the realized amount after update_fill
handle_fill_after_update(inventory, ledger, mid_price, quantity, price, timestamp) ==
    LET old_qty == inventory.quantity
        closes == (old_qty > ZERO /\ quantity < ZERO) \/ (old_qty < ZERO /\ quantity > ZERO)
        updated == update_fill(inventory, quantity, price, timestamp)
        closing_qty == Min(Abs(old_qty), Abs(quantity))
        direction == IF old_qty > ZERO THEN ONE ELSE 0 - ONE
        realized == DecMul(DecMul(closing_qty, direction),
                           price - updated.avg_entry_price)
        booked == IF closes THEN add_realized(ledger, realized) ELSE ledger
    IN  [inventory |-> updated,
         pnl       |-> set_unrealized(booked, unrealized_pnl(updated, mid_price)),
         booked    |-> closes,
         realized  |-> IF closes THEN realized ELSE ZERO]

handle_fill(inventory, ledger, mid_price, quantity, price, timestamp) ==
    LET old_qty == inventory.quantity
        closes == (old_qty > ZERO /\ quantity < ZERO) \/ (old_qty < ZERO /\ quantity > ZERO)
        closing_qty == Min(Abs(old_qty), Abs(quantity))
        direction == IF old_qty > ZERO THEN ONE ELSE 0 - ONE
        realized == DecMul(DecMul(closing_qty, direction),
                           price - inventory.avg_entry_price)
        booked == IF closes THEN add_realized(ledger, realized) ELSE ledger
        updated == update_fill(inventory, quantity, price, timestamp)
    IN  [inventory |-> updated,
         pnl       |-> set_unrealized(booked, unrealized_pnl(updated, mid_price)),
         booked    |-> closes,
         realized  |-> IF closes THEN realized ELSE ZERO]

HandleFill(quantity, price, timestamp) ==
    /\ session.program = "real_time_simulation"
    /\ steps < MaxSteps
    /\ Abs(position.quantity + quantity) <= D(MaxQty)
    /\ steps' = steps + 1
    /\ LET after == handle_fill(position, pnl, market_state.mid_price, quantity, price,
                                timestamp)
       IN  /\ position' = after.inventory
           /\ pnl' = after.pnl
           /\ call' = [op |-> "fill", fill_quantity |-> quantity, fill_price |-> price,
                       timestamp |-> timestamp, pre |-> position,
                       booked |-> after.booked, realized |-> after.realized]
    /\ fills' = Applied(fills, quantity, price, timestamp)
    /\ UNCHANGED <<market_state, session, SessionFrame>>

UpdateMarket(new_mid, timestamp) ==
    /\ session.program = "real_time_simulation"
    /\ steps < MaxSteps
    /\ steps' = steps + 1
    /\ market_state' = [mid_price |-> new_mid, timestamp |-> timestamp]
    /\ pnl' = set_unrealized(pnl, unrealized_pnl(position, new_mid))
    /\ call' = [op |-> "update_market", new_mid |-> new_mid, pre |-> position]
    /\ UNCHANGED <<position, fills, session, SessionFrame>>

\* one scripted trade of an example: update_fill, then the booking of the
\* amount the example computed, then set_unrealized
Trade(program, step, quantity, price, timestamp, booked, realized, unrealized) ==
    /\ session = [program |-> program, step |-> step]
    /\ session' = [program |-> program, step |-> step + 1]
    /\ position' = update_fill(position, quantity, price, timestamp)
    /\ pnl' = set_unrealized(IF booked THEN add_realized(pnl, realized) ELSE pnl,
                             unrealized)
    /\ call' = [op |-> "fill", fill_quantity |-> quantity, fill_price |-> price,
                timestamp |-> timestamp, pre |-> position, booked |-> booked,
                realized |-> realized]
    /\ fills' = Applied(fills, quantity, price, timestamp)
    /\ UNCHANGED <<market_state, steps, SessionFrame>>

\* a scripted move of the mid price followed by set_unrealized
MarketMove(program, step, new_mid) ==
    /\ session = [program |-> program, step |-> step]
    /\ session' = [program |-> program, step |-> step + 1]
    /\ market_state' = [mid_price |-> new_mid, timestamp |-> market_state.timestamp]
    /\ pnl' = set_unrealized(pnl, unrealized_pnl(position, new_mid))
    /\ call' = [op |-> "update_market", new_mid |-> new_mid, pre |-> position]
    /\ UNCHANGED <<position, fills, steps, SessionFrame>>

\* the quotes of full_strategy: the config of the example (risk_aversion 0.1,
\* order_intensity 1.5, terminal_time 3600000), the session's mid price and
\* inventory, the volatility 0.2
full_strategy_quotes(mid_price, inventory, elapsed) ==
    calculate_optimal_quotes(mid_price, inventory, D(1) \div 10, D(2) \div 10,
                             3600000 - elapsed, D(15) \div 10)

\* Steps 4, 6, 8 and 9 of full_strategy: the quotes of the coming trade,
\* unwrapped by expect
FullStrategyQuotes ==
    \E at \in {<<0, 0>>, <<2, 1000>>, <<4, 2000>>, <<6, 3000>>} :
        /\ session = [program |-> "full_strategy", step |-> at[1]]
        /\ session' = [program |-> "full_strategy", step |-> at[1] + 1]
        /\ quote' = [fn |-> "full_strategy_quotes", elapsed |-> at[2],
                     result |-> full_strategy_quotes(market_state.mid_price,
                                                     position.quantity, at[2])]
        /\ quote'.result.ok
        /\ UNCHANGED <<position, pnl, call, rt, config, estimate, tasks, fills,
                       market_state, data_source, metrics, steps>>

full_strategy_trade2_realized(inventory, bid_new) ==
    DecMul(D(-5), bid_new - inventory.avg_entry_price)

full_strategy_trade3_realized(inventory, bid_final) ==
    DecMul(inventory.quantity, bid_final - inventory.avg_entry_price)

FullStrategyTrade1 ==
    Trade("full_strategy", 1, D(10), quote.result.val[2], 1000, FALSE, ZERO,
          unrealized_pnl(update_fill(position, D(10), quote.result.val[2], 1000),
                         market_state.mid_price))

FullStrategyMarketUpdate == MarketMove("full_strategy", 3, D(102))

FullStrategyTrade2 ==
    Trade("full_strategy", 5, D(-5), quote.result.val[1], 2000, TRUE,
          full_strategy_trade2_realized(position, quote.result.val[1]),
          unrealized_pnl(update_fill(position, D(-5), quote.result.val[1], 2000),
                         market_state.mid_price))

FullStrategyTrade3 ==
    Trade("full_strategy", 7, ZERO - position.quantity, quote.result.val[1], 3000, TRUE,
          full_strategy_trade3_realized(position, quote.result.val[1]), ZERO)

inventory_management_trade3_realized(inventory, sell_qty, sell_price) ==
    DecMul(sell_qty, sell_price - inventory.avg_entry_price)

inventory_management_trade4_realized(inventory, flip_price) ==
    DecMul(inventory.quantity, flip_price - inventory.avg_entry_price)

inventory_management_trade5_realized(inventory, close_price) ==
    DecMul(ZERO - inventory.quantity, close_price - inventory.avg_entry_price)

InventoryManagementTrade1 ==
    Trade("inventory_management", 0, D(10), D(100), 1000, FALSE, ZERO, pnl.unrealized)

InventoryManagementTrade2 ==
    Trade("inventory_management", 1, D(5), D(101), 2000, FALSE, ZERO, pnl.unrealized)

InventoryManagementMarketUpdate == MarketMove("inventory_management", 2, D(102))

InventoryManagementTrade3 ==
    Trade("inventory_management", 3, D(-8), D(103), 3000, TRUE,
          inventory_management_trade3_realized(position, D(8), D(103)),
          unrealized_pnl(update_fill(position, D(-8), D(103), 3000),
                         market_state.mid_price))

InventoryManagementTrade4 ==
    Trade("inventory_management", 4, D(-15), D(104), 4000, TRUE,
          inventory_management_trade4_realized(position, D(104)),
          unrealized_pnl(update_fill(position, D(-15), D(104), 4000),
                         market_state.mid_price))

InventoryManagementTrade5 ==
    Trade("inventory_management", 5, ZERO - position.quantity, D(103), 5000, TRUE,
          inventory_management_trade5_realized(position, D(103)), ZERO)

NextSessions ==
    \/ \E quantity \in SessionFillQuantities, price \in SessionFillPrices :
           HandleFill(quantity, price, 1000 * (steps + 1))
    \/ \E new_mid \in SessionMidPrices2 : UpdateMarket(new_mid, 1000 * (steps + 1))
    \/ FullStrategyQuotes
    \/ FullStrategyTrade1
    \/ FullStrategyMarketUpdate
    \/ FullStrategyTrade2
    \/ FullStrategyTrade3
    \/ InventoryManagementTrade1
    \/ InventoryManagementTrade2
    \/ InventoryManagementMarketUpdate
    \/ InventoryManagementTrade3
    \/ InventoryManagementTrade4
    \/ InventoryManagementTrade5

SpecSessions == InitSessions /\ [][NextSessions]_vars

IsSessionFill == call.op = "fill"

\* C27: in the real_time_simulation session, after every sequence of fills and
\* market updates from a flat position and a zero ledger, unrealized is the
\* position's unrealized_pnl at the current mid and total is the sum over all
\* fills of quantity * (current mid - fill price).
C27_BooksAreConservative ==
    session.program = "real_time_simulation" =>
        /\ pnl.unrealized = unrealized_pnl(position, market_state.mid_price)
        /\ pnl.total = DecMul(fills.quantity, market_state.mid_price) - fills.cost

\* long 10 crossed to short 10 by a fill of -20 at another price, then marked
C27_Witness ==
    /\ session.program = "real_time_simulation"
    /\ fills.count >= 2
    /\ IsSessionFill
    /\ call.pre.quantity = D(10)
    /\ call.fill_quantity = D(-20)
    /\ call.fill_price # call.pre.avg_entry_price
    /\ call.booked
    /\ pnl.realized # ZERO
    /\ pnl.total = DecMul(fills.quantity, market_state.mid_price) - fills.cost

\* the fill of the last call reduces, flattens or crosses the position
Closes ==
    \/ (call.pre.quantity > ZERO /\ call.fill_quantity < ZERO)
    \/ (call.pre.quantity < ZERO /\ call.fill_quantity > ZERO)

\* the realized amount of the closed part of the last fill
ClosedAmount ==
    DecMul(DecMul(Min(Abs(call.pre.quantity), Abs(call.fill_quantity)),
                  Sign(call.pre.quantity) * ONE),
           call.fill_price - call.pre.avg_entry_price)

\* C28: every example session books, for each fill that reduces, flattens or
\* crosses the position, exactly closed_qty * sign(pre-fill quantity) *
\* (fill_price - average before update_fill), closed_qty being the smaller of
\* |pre-fill quantity| and |fill quantity|; closing long above the average or
\* short below it books a positive amount.
C28_RealizedOfClosedPart ==
    (IsSessionFill /\ Closes) =>
        /\ call.booked
        /\ call.realized = ClosedAmount
        /\ ((call.pre.quantity > ZERO /\ call.fill_price > call.pre.avg_entry_price)
            \/ (call.pre.quantity < ZERO /\ call.fill_price < call.pre.avg_entry_price))
               => call.realized > ZERO

\* the same statement for the real_time_simulation session alone
C28_HandleFillRealized ==
    (session.program = "real_time_simulation" /\ IsSessionFill /\ Closes) =>
        /\ call.booked
        /\ call.realized = ClosedAmount
        /\ ((call.pre.quantity > ZERO /\ call.fill_price > call.pre.avg_entry_price)
            \/ (call.pre.quantity < ZERO /\ call.fill_price < call.pre.avg_entry_price))
               => call.realized > ZERO

(***************************************************************************)
(* VecDataSource: the in-memory historical data source of the backtest     *)
(***************************************************************************)
MaxTicks == 3

\* a MarketTick, told apart by its timestamp
MarketTicks == {[timestamp |-> 1000], [timestamp |-> 1001]}

VecDataSource_new(ticks) == [ticks |-> ticks, index |-> 0]

current_index(self) == self.index

push(self, tick) == [self EXCEPT !.ticks = Append(self.ticks, tick)]

next_tick(self) ==
    IF self.index < Len(self.ticks)
    THEN [self |-> [self EXCEPT !.index = self.index + 1],
          ret  |-> Some(self.ticks[self.index + 1])]
    ELSE [self |-> self, ret |-> None]

\* peek_tick that consumes the tick it returns
peek_tick_advancing(self) ==
    IF self.index < Len(self.ticks)
    THEN [self |-> [self EXCEPT !.index = self.index + 1],
          ret  |-> Some(self.ticks[self.index + 1])]
    ELSE [self |-> self, ret |-> None]

peek_tick(self) ==
    [self |-> self,
     ret  |-> IF self.index + 1 \in DOMAIN self.ticks
              THEN Some(self.ticks[self.index + 1]) ELSE None]

reset(self) == [self EXCEPT !.index = 0]

len(self) == Len(self.ticks)

remaining(self) ==
    IF Len(self.ticks) >= self.index THEN Len(self.ticks) - self.index ELSE 0

InitData ==
    /\ position = InventoryPosition_new
    /\ pnl = PnL_new
    /\ \E ticks \in SeqsOf(MarketTicks, 0, MaxTicks) :
          /\ data_source = VecDataSource_new(ticks)
          /\ call = [op |-> "new", pre |-> data_source, ret |-> None, returned |-> <<>>]
    /\ rt = NoRt
    /\ quote = NoQuote
    /\ config = NoConfig
    /\ estimate = NoEstimate
    /\ tasks = NoTasks
    /\ fills = NoFills
    /\ market_state = NoMarketState
    /\ session = NoSession
    /\ metrics = NoMetrics
    /\ steps = 0

DataFrame ==
    <<position, pnl, rt, quote, config, estimate, tasks, fills, market_state, session,
      metrics, steps>>

\* call.returned is the sequence of ticks next_tick has returned since the
\* source was built or last reset
NextTick ==
    LET result == next_tick(data_source)
    IN  /\ data_source' = result.self
        /\ call' = [op |-> "next_tick", pre |-> data_source, ret |-> result.ret,
                    returned |-> IF result.ret.some
                                 THEN Append(call.returned, result.ret.val)
                                 ELSE call.returned]
        /\ UNCHANGED DataFrame

PeekTick ==
    LET result == peek_tick(data_source)
    IN  /\ data_source' = result.self
        /\ call' = [op |-> "peek_tick", pre |-> data_source, ret |-> result.ret,
                    returned |-> call.returned]
        /\ UNCHANGED DataFrame

Reset ==
    /\ data_source' = reset(data_source)
    /\ call' = [op |-> "reset", pre |-> data_source, ret |-> None, returned |-> <<>>]
    /\ UNCHANGED DataFrame

Push(tick) ==
    /\ Len(data_source.ticks) < MaxTicks
    /\ data_source' = push(data_source, tick)
    /\ call' = [op |-> "push", pre |-> data_source, ret |-> None, tick |-> tick,
                returned |-> call.returned]
    /\ UNCHANGED DataFrame

Remaining ==
    /\ call' = [op |-> "remaining", pre |-> data_source,
                ret |-> Some(remaining(data_source)), returned |-> call.returned]
    /\ UNCHANGED <<data_source, DataFrame>>

NextData ==
    \/ NextTick
    \/ PeekTick
    \/ Reset
    \/ \E tick \in MarketTicks : Push(tick)
    \/ Remaining

SpecData == InitData /\ [][NextData]_vars

\* C29: next_tick returns the ticks in order, each once, and None once the
\* source is exhausted, until reset or push; peek_tick returns what the next
\* next_tick will return and does not advance; reset replays from the first
\* tick; in every reachable state current_index <= len and remaining is
\* len - current_index.
C29_TicksInOrderOnce ==
    /\ current_index(data_source) <= len(data_source)
    /\ remaining(data_source) = len(data_source) - current_index(data_source)
    /\ call.returned = SubSeq(data_source.ticks, 1, current_index(data_source))
    /\ call.op = "next_tick" =>
          IF call.pre.index < Len(call.pre.ticks)
          THEN /\ call.ret = Some(call.pre.ticks[call.pre.index + 1])
               /\ data_source = [call.pre EXCEPT !.index = call.pre.index + 1]
          ELSE /\ call.ret = None
               /\ data_source = call.pre
    /\ call.op = "peek_tick" =>
          /\ data_source = call.pre
          /\ call.ret = next_tick(data_source).ret
    /\ call.op = "reset" =>
          /\ current_index(data_source) = 0
          /\ data_source.ticks = call.pre.ticks
    /\ call.op = "push" =>
          /\ data_source.ticks = Append(call.pre.ticks, call.tick)
          /\ current_index(data_source) = current_index(call.pre)
    /\ call.op = "remaining" =>
          call.ret = Some(len(data_source) - current_index(data_source))

\* a source of two different ticks, both returned in order, answers None
C29_Witness ==
    /\ call.op = "next_tick"
    /\ call.ret = None
    /\ call.returned = <<[timestamp |-> 1000], [timestamp |-> 1001]>>
    /\ data_source.ticks = call.returned
    /\ current_index(data_source) = 2
    /\ remaining(data_source) = 0

\* peek_tick on a source with ticks left returns the tick and leaves the index
C29_PeekWitness ==
    /\ call.op = "peek_tick"
    /\ call.ret = Some([timestamp |-> 1001])
    /\ current_index(data_source) = 1
    /\ data_source = call.pre

(***************************************************************************)
(* MetricsBridge::sync: the quotes counter of LiveMetrics copied into the  *)
(* Prometheus counter by threads whose steps interleave.  Each thread      *)
(* keeps its snapshot and its quotes_diff in its own frame; alone says     *)
(* that nothing else has run since the thread entered sync.                *)
(***************************************************************************)
MaxQuotes == 2

IdleThread == [pc |-> "idle", snapshot |-> 0, quotes_diff |-> 0, alone |-> FALSE]

InitMetrics ==
    /\ position = InventoryPosition_new
    /\ pnl = PnL_new
    /\ call = NoCall
    /\ rt = NoRt
    /\ quote = NoQuote
    /\ config = NoConfig
    /\ estimate = NoEstimate
    /\ tasks = [t \in Tasks |-> IdleThread]
    /\ fills = NoFills
    /\ market_state = NoMarketState
    /\ session = NoSession
    /\ data_source = NoDataSource
    /\ metrics = [quotes_generated |-> 0, quotes_total |-> 0, before |-> 0]
    /\ steps = 0

MetricsFrame ==
    <<position, pnl, call, rt, quote, config, estimate, fills, market_state, session,
      data_source, steps>>

\* thread t has taken a step: every other thread has had company
Disturbed(t, mine) ==
    [u \in Tasks |-> IF u = t THEN mine ELSE [tasks[u] EXCEPT !.alone = FALSE]]

\* LiveMetrics::record_quote: one more quote generated
RecordQuote ==
    /\ metrics.quotes_generated < MaxQuotes
    /\ metrics' = [metrics EXCEPT !.quotes_generated = @ + 1,
                                  !.before = metrics.quotes_total]
    /\ tasks' = [u \in Tasks |-> [tasks[u] EXCEPT !.alone = FALSE]]
    /\ UNCHANGED MetricsFrame

\* sync, first statement: the snapshot of LiveMetrics
SyncSnapshot(t) ==
    /\ tasks[t].pc \in {"idle", "done"}
    /\ tasks' = Disturbed(t, [pc |-> "snapshot", snapshot |-> metrics.quotes_generated,
                              quotes_diff |-> 0, alone |-> TRUE])
    /\ metrics' = [metrics EXCEPT !.before = metrics.quotes_total]
    /\ UNCHANGED MetricsFrame

\* sync, second statement: quotes_diff from the snapshot and get_quotes_total
SyncDiff(t) ==
    /\ tasks[t].pc = "snapshot"
    /\ tasks' = Disturbed(t, [tasks[t] EXCEPT
                                 !.pc = "diff",
                                 !.quotes_diff = tasks[t].snapshot - metrics.quotes_total])
    /\ metrics' = [metrics EXCEPT !.before = metrics.quotes_total]
    /\ UNCHANGED MetricsFrame

inc_quotes_by(m, count) == [m EXCEPT !.quotes_total = m.quotes_total + count]

\* sync, the rest: inc_quotes_by(quotes_diff) when the difference is positive
SyncIncrement(t) ==
    /\ tasks[t].pc = "diff"
    /\ tasks' = Disturbed(t, [tasks[t] EXCEPT !.pc = "done"])
    /\ metrics' = [(IF tasks[t].quotes_diff > 0
                    THEN inc_quotes_by(metrics, tasks[t].quotes_diff)
                    ELSE metrics) EXCEPT !.before = metrics.quotes_total]
    /\ UNCHANGED MetricsFrame

NextMetrics ==
    \/ RecordQuote
    \/ \E t \in Tasks :
          \/ SyncSnapshot(t)
          \/ SyncDiff(t)
          \/ SyncIncrement(t)

SpecMetrics == InitMetrics /\ [][NextMetrics]_vars

\* C30: in every interleaving of quote recordings and sync() calls, concurrent
\* sync() calls included, quotes_total never decreases, never exceeds the number
\* of quotes recorded in LiveMetrics, and equals that number after a sync()
\* that ran with no concurrent activity.
C30_CounterTracksLiveMetrics ==
    /\ metrics.quotes_total >= metrics.before
    /\ metrics.quotes_total <= metrics.quotes_generated
    /\ \A t \in DOMAIN tasks :
          (tasks[t].pc = "done" /\ tasks[t].alone)
              => metrics.quotes_total = metrics.quotes_generated

\* the parts of C30 that hold: quotes_total never decreases, and a sync() that
\* starts with quotes_total at most the recorded number and runs alone leaves
\* the two equal
C30_NeverDecreases ==
    /\ metrics.quotes_total >= metrics.before
    /\ \A t \in DOMAIN tasks :
          (tasks[t].pc = "done" /\ tasks[t].alone
           /\ metrics.quotes_total <= metrics.quotes_generated)
              => metrics.quotes_total = metrics.quotes_generated

====
